---- MODULE Spec2Model ----
(***************************************************************************)
(* A model of the wm8960-circle audio core: the double-buffered sample     *)
(* exchange of CAudio (PutChunk / GetChunk), and the 24-bit <-> float      *)
(* format converter (u32_to_s24, s24_to_u32, convertInputToFloat,          *)
(* convertFloatToOutput).                                                  *)
(*                                                                         *)
(* Specifications                                                          *)
(*   Spec      PutChunk and GetChunk, each call one step, called in any    *)
(*             order with any length.                                      *)
(*   SpecConc  the same handlers statement by statement, running in two    *)
(*             execution contexts whose statements interleave.             *)
(*   SpecConv  the converter applied to one float and to the code it       *)
(*             yields.                                                     *)
(*   SpecMidi, SpecBind  the MIDI byte and packet paths and the binding    *)
(*             of the USB device.                                          *)
(*   SpecPerf, SpecRate  CPerformanceMonitor, each call one step.          *)
(*   SpecRead  an accessor of the monitor beside an EndTiming, one memory  *)
(*             access a step.                                              *)
(*   SpecCodec CWM8960SoundController, each call one step, on a bus that   *)
(*             may fail a transfer.                                        *)
(*                                                                         *)
(* Representation of machine values                                        *)
(*   u32 word   <<hi, lo>>, hi = bits 31..24 (0..255), lo = bits 23..0.    *)
(*              The word is hi * 2^24 + lo; it is kept as a pair because   *)
(*              the model checker's integers are 32-bit signed.            *)
(*   int32      an Int.                                                    *)
(*   float      [cls, sign, man, exp]: cls "fin" is the binary32 number    *)
(*              (-1)^sign * man * 2^exp with 0 <= man < 2^24, normal       *)
(*              numbers having 2^23 <= man and exp >= -149, subnormals     *)
(*              and zero having exp = -149; cls "inf" is a signed          *)
(*              infinity and cls "nan" a NaN.                              *)
(***************************************************************************)
EXTENDS Integers, Sequences, FiniteSets, TLC

----------------------------------------------------------------------------
(* Bounds of the model *)

\* Words per sample block. The source's AUDIO_BLOCK_SIZE is 256; the model
\* keeps every loop and copy of the source and runs them over shorter blocks.
BlockLen == 2
\* Calls the driver makes in one behaviour, the handlers taken as single steps.
MaxCalls == 4
\* Calls the driver makes in one behaviour, the handlers taken statement by
\* statement.
MaxStepCalls == 3
\* Mantissas next to each power of two that the converter is tried on.
MantSpan == 2
\* Bytes and packets the MIDI sources deliver in one behaviour.
MaxMidiInputs == 5
\* Attachments and removals of the USB MIDI device in one behaviour.
MaxPlugs == 4
\* Packets the device delivers in one behaviour of attachments and removals.
MaxPlugPackets == 2
\* USB MIDI devices attached at the same time.
MaxDevices == 2
\* Capacity of the performance monitor's circular buffer (maxSamples).
MaxSamples == 2
\* Calls made on the performance monitor in one behaviour.
MaxPerfCalls == 6
\* Calls made on the performance monitor in one behaviour, the sample rate
\* and the buffer size being set between them.
MaxRateCalls == 4
\* Calls the real-time path makes on the monitor before an accessor and an
\* EndTiming run side by side.
MaxReadCalls == 9
\* Calls made on the codec controller in one behaviour.
MaxCodecCalls == 2

----------------------------------------------------------------------------
(* Program constants (audio.hpp) *)

AUDIO_BLOCK_SIZE == BlockLen
NUM_FRAMES == AUDIO_BLOCK_SIZE \div 2

TwoTo23 == 2 ^ 23
TwoTo24 == 2 ^ 24

----------------------------------------------------------------------------
(* binary32 arithmetic, as far as the converter uses it *)

Pow2(k) == 2 ^ k

RECURSIVE BitLen(_)
BitLen(n) == IF n = 0 THEN 0 ELSE 1 + BitLen(n \div 2)

Max2(a, b) == IF a >= b THEN a ELSE b

F32Zero(s) == [cls |-> "fin", sign |-> s, man |-> 0, exp |-> -149]

\* The canonical float of sign s and magnitude m * 2^e, m < 2^24 (exact).
F32Norm(s, m, e) ==
    IF m = 0 THEN F32Zero(s)
    ELSE LET up == Max2(0, IF 24 - BitLen(m) <= e + 149 THEN 24 - BitLen(m) ELSE e + 149)
         IN  [cls |-> "fin", sign |-> s, man |-> m * Pow2(up), exp |-> e - up]

\* (float) of an int32 n with |n| <= 2^24: exact.
F32FromInt(n) == IF n >= 0 THEN F32Norm(0, n, 0) ELSE F32Norm(1, -n, 0)

\* a < b on floats, as the C operator: false when either is a NaN.
F32Mag(a) == IF a.man = 0 THEN <<-150, 0>> ELSE <<a.exp, a.man>>
MagLess(x, y) == x[1] < y[1] \/ (x[1] = y[1] /\ x[2] < y[2])
F32Less(a, b) ==
    IF a.cls = "nan" \/ b.cls = "nan" THEN FALSE
    ELSE IF a.cls = "inf" THEN a.sign = 1 /\ ~(b.cls = "inf" /\ b.sign = 1)
    ELSE IF b.cls = "inf" THEN b.sign = 0
    ELSE IF a.man = 0 /\ b.man = 0 THEN FALSE
    ELSE IF a.sign # b.sign THEN a.sign = 1
    ELSE IF a.sign = 0 THEN MagLess(F32Mag(a), F32Mag(b))
    ELSE MagLess(F32Mag(b), F32Mag(a))

\* std::min(a, b) == (b < a) ? b : a ;  std::max(a, b) == (a < b) ? b : a
StdMin(a, b) == IF F32Less(b, a) THEN b ELSE a
StdMax(a, b) == IF F32Less(a, b) THEN b ELSE a

\* The 48-bit product of two 24-bit mantissas as <<high 24 bits, low 24 bits>>.
MulWide(a, b) ==
    LET a1 == a \div 4096   a0 == a % 4096
        b1 == b \div 4096   b0 == b % 4096
        mid == a1 * b0 + a0 * b1
        low == (mid % 4096) * 4096 + a0 * b0
    IN  << a1 * b1 + mid \div 4096 + low \div TwoTo24, low % TwoTo24 >>

\* <<H, L>> shifted right by d bits, rounded to nearest, ties to even.
ShrRNE(H, L, d) ==
    IF d = 0 THEN L
    ELSE IF d <= 24 THEN
        LET q == H * Pow2(24 - d) + L \div Pow2(d)
            r == L % Pow2(d)
            h == Pow2(d - 1)
        IN  IF r > h \/ (r = h /\ q % 2 = 1) THEN q + 1 ELSE q
    ELSE IF d <= 48 THEN
        LET q  == H \div Pow2(d - 24)
            rH == H % Pow2(d - 24)
            hH == Pow2(d - 25)
        IN  IF rH > hH \/ (rH = hH /\ L > 0) \/ (rH = hH /\ L = 0 /\ q % 2 = 1)
            THEN q + 1 ELSE q
    ELSE 0

\* a * b for finite floats, rounded to nearest even (no overflow arises in
\* the converter: one factor is at most 2^24 in magnitude, the other at most 1).
F32Mul(a, b) ==
    LET s  == (a.sign + b.sign) % 2
        P  == MulWide(a.man, b.man)
        e  == a.exp + b.exp
        bl == IF P[1] > 0 THEN 24 + BitLen(P[1]) ELSE BitLen(P[2])
        d  == Max2(Max2(bl - 24, -149 - e), 0)
        q  == ShrRNE(P[1], P[2], d)
    IN  IF q = TwoTo24 THEN F32Norm(s, TwoTo23, e + d + 1) ELSE F32Norm(s, q, e + d)

\* (int32_t) of a finite float of magnitude below 2^31: truncation toward zero.
F32ToInt32(a) ==
    LET mag == IF a.exp >= 0 THEN a.man * Pow2(a.exp)
               ELSE IF -a.exp >= 24 THEN 0
               ELSE a.man \div Pow2(-a.exp)
    IN  IF a.sign = 1 THEN -mag ELSE mag

\* (float) of an unsigned 32-bit value <<high 8 bits, low 24 bits>>, rounded
\* to nearest even.
F32FromU32(w) ==
    IF w[1] = 0 THEN F32Norm(0, w[2], 0)
    ELSE LET b == BitLen(w[1])
             q == w[1] * Pow2(24 - b) + w[2] \div Pow2(b)
             r == w[2] % Pow2(b)
             h == Pow2(b - 1)
             up == IF r > h \/ (r = h /\ q % 2 = 1) THEN q + 1 ELSE q
         IN  IF up = TwoTo24 THEN F32Norm(0, TwoTo23, b + 1) ELSE F32Norm(0, up, b)

\* The mantissa of a normal number brought to 24 bits, with its exponent.
Full24(a) ==
    << a.man * Pow2(24 - BitLen(a.man)), a.exp - (24 - BitLen(a.man)) >>

\* k more quotient bits of r / d by long division, r < d: <<bits, remainder>>.
RECURSIVE DivBits(_, _, _, _)
DivBits(r, d, k, q) ==
    IF k = 0 THEN << q, r >>
    ELSE IF 2 * r >= d THEN DivBits(2 * r - d, d, k - 1, 2 * q + 1)
    ELSE DivBits(2 * r, d, k - 1, 2 * q)

\* a / b for finite floats, b not zero, rounded to nearest even (the
\* quotients of the monitor neither overflow nor underflow).
F32Div(a, b) ==
    LET s == (a.sign + b.sign) % 2
    IN  IF a.man = 0 THEN F32Zero(s)
        ELSE LET na == Full24(a)
                 nb == Full24(b)
                 D  == DivBits(na[1] % nb[1], nb[1], 25, na[1] \div nb[1])
                 Q  == D[1]
                 d  == BitLen(Q) - 24
                 q  == Q \div Pow2(d)
                 r  == Q % Pow2(d)
                 h  == Pow2(d - 1)
                 up == IF r > h \/ (r = h /\ (D[2] # 0 \/ q % 2 = 1))
                       THEN q + 1 ELSE q
                 e  == na[2] - nb[2] - 25 + d
             IN  IF up = TwoTo24 THEN F32Norm(s, TwoTo23, e + 1)
                 ELSE F32Norm(s, up, e)

\* m * 2^k for m < 2^24 and k <= 25, as <<high bits, low 24 bits>>.
ShlWide(m, k) ==
    IF k < 24 THEN << m \div Pow2(24 - k), (m % Pow2(24 - k)) * Pow2(k) >>
    ELSE << m * Pow2(k - 24), 0 >>

\* a + b for finite floats, rounded to nearest even (the sums of the monitor
\* do not overflow).
F32Add(a, b) ==
    IF a.man = 0 /\ b.man = 0
    THEN F32Zero(IF a.sign = 1 /\ b.sign = 1 THEN 1 ELSE 0)
    ELSE IF b.man = 0 THEN a
    ELSE IF a.man = 0 THEN b
    ELSE LET swap  == MagLess(F32Mag(a), F32Mag(b))
             big   == IF swap THEN b ELSE a
             small == IF swap THEN a ELSE b
             k     == big.exp - small.exp
         IN  IF k >= 26 THEN big
             ELSE LET W   == ShlWide(big.man, k)
                      lo  == IF big.sign = small.sign
                             THEN W[2] + small.man ELSE W[2] - small.man
                      H   == W[1] + lo \div TwoTo24
                      L   == lo % TwoTo24
                      bl  == IF H > 0 THEN 24 + BitLen(H) ELSE BitLen(L)
                      d   == Max2(bl - 24, 0)
                      q   == ShrRNE(H, L, d)
                  IN  IF H = 0 /\ L = 0 THEN F32Zero(0)
                      ELSE IF q = TwoTo24
                      THEN F32Norm(big.sign, TwoTo23, small.exp + d + 1)
                      ELSE F32Norm(big.sign, q, small.exp + d)

----------------------------------------------------------------------------
(* Format converter (audio.cpp) *)

\* u32_to_s24 with the sign extension left out.
u32_to_s24_masked(value) == value[2]

\* Convert 24-bit packed in 32-bit to signed 24-bit:
\*   value & 0x800000 ? (int32_t)(value | 0xFF000000) : (int32_t)(value & 0x00FFFFFF)
u32_to_s24(value) ==
    IF value[2] >= TwoTo23 THEN value[2] - TwoTo24 ELSE value[2]

\* Convert signed 24-bit to 32-bit format for I2S: (uint32_t)(value & 0x00FFFFFF)
s24_to_u32(value) == << 0, value % TwoTo24 >>

\* const float scale = 1.0f / 8388607.0f  (binary32 0x34000001 = (2^23 + 1) * 2^-46)
scaleIn == [cls |-> "fin", sign |-> 0, man |-> TwoTo23 + 1, exp |-> -46]
\* const float scale = 8388607.0f
scaleOut == F32FromInt(TwoTo23 - 1)

F32One == F32FromInt(1)
F32MinusOne == F32FromInt(-1)

\* One sample of convertInputToFloat: (float)u32_to_s24(w) * scale
ToFloat(w) == F32Mul(F32FromInt(u32_to_s24(w)), scaleIn)

\* std::max(-1.0f, std::min(1.0f, x))
Clamp(x) == StdMax(F32MinusOne, StdMin(F32One, x))

\* One sample of convertFloatToOutput: s24_to_u32((int32_t)(clamped * scale))
FromFloat(x) == s24_to_u32(F32ToInt32(F32Mul(Clamp(x), scaleOut)))

\* convertInputToFloat over a whole block: deinterleave and normalise.
convertInputToFloat(buf) ==
    [ left  |-> [i \in 0 .. NUM_FRAMES - 1 |-> ToFloat(buf[i * 2])],
      right |-> [i \in 0 .. NUM_FRAMES - 1 |-> ToFloat(buf[i * 2 + 1])] ]

\* convertFloatToOutput over a whole block: clamp, scale, interleave. Words
\* past 2 * NUM_FRAMES keep what the buffer held.
convertFloatToOutput(left, right, buf) ==
    [i \in 0 .. AUDIO_BLOCK_SIZE - 1 |->
        IF i \div 2 >= NUM_FRAMES THEN buf[i]
        ELSE IF i % 2 = 0 THEN FromFloat(left[i \div 2])
        ELSE FromFloat(right[i \div 2])]

----------------------------------------------------------------------------
(* State *)

VARIABLES
    \* CAudio (audio.hpp)
    aCircleFaustDSP,      \* "dsp" or "null"
    inputBuffer_A, inputBuffer_B, outputBuffer_A, outputBuffer_B,
    currentInputBuffer,   \* "A": inputBuffer_A, "B": inputBuffer_B
    currentOutputBuffer,  \* "A": outputBuffer_A, "B": outputBuffer_B
    useBufferA,
    inputLeft, inputRight, outputLeft, outputRight,
    \* the I2S driver calling PutChunk / GetChunk
    pBuffer,              \* the block GetChunk was last handed, after the call
    getResult,            \* what GetChunk last returned
    lastSize,             \* nChunkSize of the call that last returned
    lastPut,              \* the block of the last correctly sized PutChunk
    readBlock,            \* the words GetChunk last read from currentInputBuffer
    calls,                \* the calls that have returned, oldest first
    \* a call in progress, step by step
    pcPut, putArg, putSize, putRegion, putCopied,
    pcGet, getSize, iGet,
    getRegion,            \* the value of currentInputBuffer GetChunk's loop
                          \* last loaded
    \* the converter applied to one sample
    cvPc, cvIn, cvCode, cvBack,
    \* CAudio's MIDI members (audio.hpp 53-77)
    m_nSerialState,       \* 0: Idle, 1: ExpectData1, 2: ExpectData2
    m_SerialMessage,      \* the three staged bytes
    m_pMIDIDevice,        \* 0: none, else the device bound
    m_nMidiType, m_nMidiChannel, m_nMidiData1, m_nMidiData2,
    \* the MIDI sources and the event sink
    events,               \* the events dispatched, oldest first
    normCalls,            \* messages handed to the common normalization
    midiTrace,            \* the bytes and packets received, oldest first
    registered,           \* the device holding CAudio's handlers, 0: none
    devicePresent,        \* the USB MIDI devices attached
    plugAndPlayUpdated,   \* what UpdatePlugAndPlay() returns next
    plugCount,            \* attachments and removals so far
    \* CPerformanceMonitor (performancemonitor.h)
    m_nSampleRate, m_nBufferSize, m_nMaxSamples,
    m_nStartTicks, m_nEndTicks, m_bTimingActive,
    m_pClockCycles, m_pProcessingTimes, m_pCPUUsages,
    m_nCurrentIndex, m_nValidSamples, m_LastResult,
    perfLog,              \* the calls made on the monitor, oldest first
    perfSamples,          \* the periods closed since construction or the last
                          \* ResetStatistics, oldest first: the sample count
                          \* passed, the rate set and the sample computed
    perfAppended,         \* samples stored since construction
    clockTicks,           \* what CTimer::GetClockTicks() last returned
    \* an accessor of the monitor and an EndTiming running side by side
    reader,               \* the accessor: position, locals, value returned
    writer,               \* the EndTiming: position, locals
    \* CWM8960SoundController (wm8960soundcontroller.cpp)
    wm8960,               \* the object: m_nSampleRate, m_bOutSupported,
                          \* m_bInSupported, m_uchInVolume
    i2cWrites,            \* the transfers the last call put on the bus
    codecCall,            \* the last call: arguments, value returned and
                          \* m_uchInVolume as it was before
    codecCalls,           \* calls made so far
    written,              \* R0, R1: the value of the last transfer to the
                          \* register that completed, -1 before any has
    probed                \* Probe has returned TRUE and only SetControl
                          \* has been called since

audioVars == << aCircleFaustDSP, inputBuffer_A, inputBuffer_B, outputBuffer_A,
                outputBuffer_B, currentInputBuffer, currentOutputBuffer,
                useBufferA, inputLeft, inputRight, outputLeft, outputRight >>
driverVars == << pBuffer, getResult, lastSize, lastPut, readBlock, calls >>
stepVars == << pcPut, putArg, putSize, putRegion, putCopied, pcGet, getSize,
              iGet, getRegion >>
cvVars == << cvPc, cvIn, cvCode, cvBack >>
midiVars == << m_nSerialState, m_SerialMessage, m_pMIDIDevice, m_nMidiType,
               m_nMidiChannel, m_nMidiData1, m_nMidiData2, events, normCalls,
               midiTrace, registered, devicePresent, plugAndPlayUpdated,
               plugCount >>
perfVars == << m_nSampleRate, m_nBufferSize, m_nMaxSamples, m_nStartTicks,
               m_nEndTicks, m_bTimingActive, m_pClockCycles,
               m_pProcessingTimes, m_pCPUUsages, m_nCurrentIndex,
               m_nValidSamples, m_LastResult, perfLog, perfSamples,
               perfAppended, clockTicks >>
readVars == << reader, writer >>
codecVars == << wm8960, i2cWrites, codecCall, codecCalls, written, probed >>
vars == << audioVars, driverVars, stepVars, cvVars, midiVars, perfVars,
           readVars, codecVars >>

----------------------------------------------------------------------------
(* Inputs *)

Word(hi, lo) == << hi, lo >>
ZeroWord == Word(0, 0)
\* What the driver's output block holds before GetChunk fills it.
Untouched == Word(165, 0)

\* Samples the codec delivers: +6 and -3, the second with its upper byte set.
SampleWords == { Word(0, 6), Word(255, TwoTo24 - 3) }
Blocks(n) == [0 .. n - 1 -> SampleWords]
ChunkSizes == { AUDIO_BLOCK_SIZE - 1, AUDIO_BLOCK_SIZE, AUDIO_BLOCK_SIZE + 1 }

ZeroBlock == [i \in 0 .. AUDIO_BLOCK_SIZE - 1 |-> ZeroWord]
FreshBlock(n) == [i \in 0 .. n - 1 |-> Untouched]

\* The float arrays are not initialised by the constructor: any content.
FloatFill == { F32Zero(0), ToFloat(Word(0, 6)) }
FloatArrays == { [i \in 0 .. NUM_FRAMES - 1 |-> f] : f \in FloatFill }

----------------------------------------------------------------------------
(* CAudio::CAudio *)

InitAudio ==
    /\ aCircleFaustDSP \in {"dsp", "null"}
    /\ inputBuffer_A = ZeroBlock
    /\ inputBuffer_B = ZeroBlock
    /\ outputBuffer_A = ZeroBlock
    /\ outputBuffer_B = ZeroBlock
    /\ currentInputBuffer = "A"
    /\ currentOutputBuffer = "A"
    /\ useBufferA = TRUE
    /\ inputLeft \in FloatArrays
    /\ inputRight = inputLeft
    /\ outputLeft \in FloatArrays
    /\ outputRight = outputLeft

InitDriver ==
    /\ pBuffer = FreshBlock(AUDIO_BLOCK_SIZE)
    /\ getResult = 0
    /\ lastSize = 0
    /\ lastPut = ZeroBlock
    /\ readBlock = ZeroBlock
    /\ calls = << >>

InitSteps ==
    /\ pcPut = "idle"
    /\ putArg = ZeroBlock
    /\ putSize = 0
    /\ putRegion = "A"
    /\ putCopied = { }
    /\ pcGet = "idle"
    /\ getSize = 0
    /\ iGet = 0
    /\ getRegion = "A"

IdleConverter ==
    /\ cvPc = "off"
    /\ cvIn = F32Zero(0)
    /\ cvCode = ZeroWord
    /\ cvBack = F32Zero(0)

\* What a pointer member the constructor does not write can hold: null, or
\* a value that is the address of no device.
UninitialisedPointers == { 0, -1 }
\* What a byte member the constructor does not write can hold.
UninitialisedBytes == { 0, 170 }

\* The MIDI members CAudio's constructor leaves: it writes none of them
\* (audio.cpp 23-49), so m_pMIDIDevice and the four bytes of the current
\* message hold whatever the storage held. The members of the byte-stream
\* parser are not in the configured build (midiconfig.h defines
\* USE_USB_MIDI_HOST only); the parser starts Idle as its description has it.
\* Nothing is dispatched and no device is attached.
InitMidi ==
    /\ m_nSerialState = 0
    /\ m_SerialMessage = << 0, 0, 0 >>
    /\ m_pMIDIDevice \in UninitialisedPointers
    /\ m_nMidiType \in UninitialisedBytes
    /\ m_nMidiChannel \in UninitialisedBytes
    /\ m_nMidiData1 \in UninitialisedBytes
    /\ m_nMidiData2 \in UninitialisedBytes
    /\ events = << >>
    /\ normCalls = 0
    /\ midiTrace = << >>
    /\ registered = 0
    /\ devicePresent = { }
    /\ plugAndPlayUpdated = FALSE
    /\ plugCount = 0

\* CPerformanceMonitor's constructor.
InitPerf ==
    /\ m_nSampleRate = 48000
    /\ m_nBufferSize = 256
    /\ m_nMaxSamples = MaxSamples
    /\ m_nStartTicks = ZeroWord
    /\ m_nEndTicks = ZeroWord
    /\ m_bTimingActive = FALSE
    /\ m_pClockCycles = [i \in 0 .. MaxSamples - 1 |-> ZeroWord]
    /\ m_pProcessingTimes = [i \in 0 .. MaxSamples - 1 |-> F32Zero(0)]
    /\ m_pCPUUsages = [i \in 0 .. MaxSamples - 1 |-> F32Zero(0)]
    /\ m_nCurrentIndex = 0
    /\ m_nValidSamples = 0
    /\ m_LastResult = [ clockCycles |-> ZeroWord,
                        processingTimeUs |-> F32Zero(0),
                        cpuUsagePercent |-> F32Zero(0) ]
    /\ perfLog = << >>
    /\ perfSamples = << >>
    /\ perfAppended = 0
    /\ clockTicks = ZeroWord

\* No accessor and no EndTiming under way.
IdleReader ==
    [ pc |-> "idle", accessor |-> "none", count |-> 0, i |-> 0,
      acc |-> ZeroWord, result |-> ZeroWord, fault |-> "none" ]
IdleWriter ==
    [ pc |-> "idle", numSamplesProcessed |-> 0,
      sample |-> [ clockCycles |-> ZeroWord,
                   processingTimeUs |-> F32Zero(0),
                   cpuUsagePercent |-> F32Zero(0) ],
      before |-> [ avgCPU |-> F32Zero(0), maxCPU |-> F32Zero(0),
                   avgCycles |-> ZeroWord, maxCycles |-> ZeroWord,
                   avgTime |-> F32Zero(0), maxTime |-> F32Zero(0) ] ]
InitReader ==
    /\ reader = IdleReader
    /\ writer = IdleWriter

\* CWM8960SoundController::CWM8960SoundController
Constructed(nSampleRate, bOutSupported, bInSupported) ==
    [ m_nSampleRate   |-> nSampleRate,
      m_bOutSupported |-> bOutSupported,
      m_bInSupported  |-> bInSupported,
      m_uchInVolume   |-> [ch \in 0 .. 1 |-> \h17] ]

NoCall ==
    [ op |-> "none", Control |-> "none", Jack |-> "none", Channel |-> "none",
      nValue |-> 0, ret |-> FALSE, m_uchInVolume |-> [ch \in 0 .. 1 |-> \h17],
      written |-> [ch \in 0 .. 1 |-> -1] ]

\* The controller as CAudio's base class builds it: SAMPLE_RATE, DeviceModeTXRX.
InitCodec ==
    /\ wm8960 = Constructed(48000, TRUE, TRUE)
    /\ i2cWrites = << >>
    /\ codecCall = NoCall
    /\ codecCalls = 0
    /\ written = [ch \in 0 .. 1 |-> -1]
    /\ probed = FALSE

\* The storage of the MIDI members happened to hold zeros.
MidiZeroed ==
    /\ m_pMIDIDevice = 0
    /\ m_nMidiType = 0 /\ m_nMidiChannel = 0
    /\ m_nMidiData1 = 0 /\ m_nMidiData2 = 0

Init ==
    /\ InitAudio /\ InitDriver /\ InitSteps /\ IdleConverter /\ InitMidi
    /\ InitPerf /\ InitReader /\ InitCodec

----------------------------------------------------------------------------
(* The handlers, each as one step *)

InputRegion(r) == IF r = "A" THEN inputBuffer_A ELSE inputBuffer_B
SelectedRegion == IF useBufferA THEN "A" ELSE "B"

\* sample = u32_to_s24(w); sample = sample / 2; s24_to_u32(sample)
\* (C division truncates toward zero)
Halve(sample) == IF sample >= 0 THEN sample \div 2 ELSE -((-sample) \div 2)
Attenuate(w) == s24_to_u32(Halve(u32_to_s24(w)))

\* memcpy(region, pBuffer, nChunkSize * sizeof(u32))
CopyInto(region, src, n) ==
    [i \in DOMAIN region |-> IF i < n THEN src[i] ELSE region[i]]

\* GetChunk reading inputBuffer_A whatever the current buffer is.
ReadRegionFixedA == "A"

\* The region GetChunk's loop reads: currentInputBuffer[i]
ReadRegion == currentInputBuffer

\* PutChunk with the size validation left out: it copies what fits.
PutChunkNoCheck(block, nChunkSize) ==
    LET n == IF nChunkSize < AUDIO_BLOCK_SIZE THEN nChunkSize ELSE AUDIO_BLOCK_SIZE
    IN  /\ IF useBufferA
           THEN /\ inputBuffer_A' = CopyInto(inputBuffer_A, block, n)
                /\ currentInputBuffer' = "A"
                /\ UNCHANGED inputBuffer_B
           ELSE /\ inputBuffer_B' = CopyInto(inputBuffer_B, block, n)
                /\ currentInputBuffer' = "B"
                /\ UNCHANGED inputBuffer_A
        /\ UNCHANGED << aCircleFaustDSP, outputBuffer_A, outputBuffer_B,
                        currentOutputBuffer, useBufferA,
                        inputLeft, inputRight, outputLeft, outputRight >>

\* void CAudio::PutChunk(const u32 *pBuffer, unsigned nChunkSize)
\* (the debug logging that follows the copy only reads pBuffer)
PutChunk(block, nChunkSize) ==
    IF nChunkSize # AUDIO_BLOCK_SIZE
    THEN UNCHANGED audioVars
    ELSE /\ IF useBufferA
            THEN /\ inputBuffer_A' = CopyInto(inputBuffer_A, block, nChunkSize)
                 /\ currentInputBuffer' = "A"
                 /\ UNCHANGED inputBuffer_B
            ELSE /\ inputBuffer_B' = CopyInto(inputBuffer_B, block, nChunkSize)
                 /\ currentInputBuffer' = "B"
                 /\ UNCHANGED inputBuffer_A
         /\ UNCHANGED << aCircleFaustDSP, outputBuffer_A, outputBuffer_B,
                         currentOutputBuffer, useBufferA,
                         inputLeft, inputRight, outputLeft, outputRight >>

\* GetChunk switching the buffers before it validates the size.
GetChunkFlipsFirst(nChunkSize) ==
    /\ useBufferA' = ~useBufferA
    /\ currentInputBuffer' = IF useBufferA' THEN "A" ELSE "B"
    /\ currentOutputBuffer' = IF useBufferA' THEN "A" ELSE "B"
    /\ UNCHANGED << aCircleFaustDSP, inputBuffer_A, inputBuffer_B,
                    outputBuffer_A, outputBuffer_B,
                    inputLeft, inputRight, outputLeft, outputRight >>
    /\ IF nChunkSize # AUDIO_BLOCK_SIZE
       THEN /\ pBuffer' = FreshBlock(nChunkSize)
            /\ getResult' = 0
            /\ UNCHANGED readBlock
       ELSE /\ readBlock' = InputRegion(currentInputBuffer)
            /\ pBuffer' = [i \in 0 .. nChunkSize - 1 |->
                              Attenuate(InputRegion(currentInputBuffer)[i])]
            /\ getResult' = nChunkSize

\* GetChunk switching the selector and the input pointer only.
GetChunkKeepsOutput(nChunkSize) ==
    IF nChunkSize # AUDIO_BLOCK_SIZE
    THEN /\ pBuffer' = FreshBlock(nChunkSize)
         /\ getResult' = 0
         /\ UNCHANGED << audioVars, readBlock >>
    ELSE /\ readBlock' = InputRegion(ReadRegion)
         /\ pBuffer' = [i \in 0 .. nChunkSize - 1 |->
                           Attenuate(InputRegion(ReadRegion)[i])]
         /\ useBufferA' = ~useBufferA
         /\ currentInputBuffer' = IF useBufferA' THEN "A" ELSE "B"
         /\ getResult' = nChunkSize
         /\ UNCHANGED << aCircleFaustDSP, inputBuffer_A, inputBuffer_B,
                         outputBuffer_A, outputBuffer_B, currentOutputBuffer,
                         inputLeft, inputRight, outputLeft, outputRight >>

\* unsigned CAudio::GetChunk(u32 *pBuffer, unsigned nChunkSize), handed a
\* fresh block; getResult is the value returned.
GetChunk(nChunkSize) ==
    IF nChunkSize # AUDIO_BLOCK_SIZE
    THEN /\ pBuffer' = FreshBlock(nChunkSize)
         /\ getResult' = 0
         /\ UNCHANGED << audioVars, readBlock >>
    ELSE /\ readBlock' = InputRegion(ReadRegion)
         /\ pBuffer' = [i \in 0 .. nChunkSize - 1 |->
                           Attenuate(InputRegion(ReadRegion)[i])]
         /\ useBufferA' = ~useBufferA
         /\ currentInputBuffer' = IF useBufferA' THEN "A" ELSE "B"
         /\ currentOutputBuffer' = IF useBufferA' THEN "A" ELSE "B"
         /\ getResult' = nChunkSize
         /\ UNCHANGED << aCircleFaustDSP, inputBuffer_A, inputBuffer_B,
                         outputBuffer_A, outputBuffer_B,
                         inputLeft, inputRight, outputLeft, outputRight >>

\* The driver delivers an input block: the call is recorded as "put" when its
\* length is the block length and as "badput" otherwise.
DoPutChunk ==
    /\ Len(calls) < MaxCalls
    /\ \E n \in ChunkSizes : \E block \in Blocks(n) :
          /\ PutChunk(block, n)
          /\ lastSize' = n
          /\ lastPut' = IF n = AUDIO_BLOCK_SIZE THEN block ELSE lastPut
          /\ calls' = Append(calls, IF n = AUDIO_BLOCK_SIZE THEN "put" ELSE "badput")
    /\ UNCHANGED << pBuffer, getResult, readBlock, stepVars, cvVars, midiVars, perfVars, readVars, codecVars >>

\* The driver asks for an output block: "get" or "badget" likewise.
DoGetChunk ==
    /\ Len(calls) < MaxCalls
    /\ \E n \in ChunkSizes :
          /\ GetChunk(n)
          /\ lastSize' = n
          /\ calls' = Append(calls, IF n = AUDIO_BLOCK_SIZE THEN "get" ELSE "badget")
    /\ UNCHANGED << lastPut, stepVars, cvVars, midiVars, perfVars, readVars, codecVars >>

Next == DoPutChunk \/ DoGetChunk

\* Neither handler touches the MIDI members: one initial content of them is
\* enough here.
InitChunks == Init /\ MidiZeroed

Spec == InitChunks /\ [][Next]_vars

----------------------------------------------------------------------------
(* The handlers statement by statement, PutChunk and GetChunk running in
   two execution contexts whose steps interleave *)

\* The float arrays, the engine and the MIDI members are not touched by
\* either handler: one initial content of each is enough here.
InitConc ==
    Init /\ aCircleFaustDSP = "dsp" /\ inputLeft = outputLeft /\ MidiZeroed

InFlight == Len(calls) + (IF pcPut = "idle" THEN 0 ELSE 1)
                       + (IF pcGet = "idle" THEN 0 ELSE 1)

\* The blocks PutChunk is entered with: a call of a wrong length never
\* reads its block, one content of it is enough.
StepBlocks(n) ==
    IF n = AUDIO_BLOCK_SIZE THEN Blocks(n)
    ELSE { [i \in 0 .. n - 1 |-> Word(0, 6)] }

\* PutChunk is entered.
PutCall ==
    /\ pcPut = "idle"
    /\ InFlight < MaxStepCalls
    /\ \E n \in ChunkSizes : \E block \in StepBlocks(n) :
          /\ putArg' = block
          /\ putSize' = n
    /\ pcPut' = "check"
    /\ UNCHANGED << audioVars, driverVars, putRegion, putCopied, pcGet, getSize, iGet, getRegion, cvVars, midiVars, perfVars, readVars, codecVars >>

\* if (nChunkSize != GetAudioBlockSize()) { log; return; }
PutCheck ==
    /\ pcPut = "check"
    /\ pcPut' = IF putSize # AUDIO_BLOCK_SIZE THEN "log" ELSE "select"
    /\ UNCHANGED << audioVars, driverVars,
                    putArg, putSize, putRegion, putCopied, pcGet, getSize, iGet, getRegion, cvVars, midiVars, perfVars, readVars, codecVars >>

\* if (useBufferA) ... else ... : the region the memcpy is aimed at
PutSelect ==
    /\ pcPut = "select"
    /\ putRegion' = SelectedRegion
    /\ putCopied' = { }
    /\ pcPut' = "copy"
    /\ UNCHANGED << audioVars, driverVars, putArg, putSize, pcGet, getSize, iGet, getRegion, cvVars, midiVars, perfVars, readVars, codecVars >>

\* memcpy, one word at a time. The order in which memcpy stores the words is
\* the library's or the compiler's: any word not yet stored may be the next.
PutCopy ==
    /\ pcPut = "copy"
    /\ \E i \in (0 .. putSize - 1) \ putCopied :
          /\ IF putRegion = "A"
             THEN /\ inputBuffer_A' = [inputBuffer_A EXCEPT ![i] = putArg[i]]
                  /\ UNCHANGED inputBuffer_B
             ELSE /\ inputBuffer_B' = [inputBuffer_B EXCEPT ![i] = putArg[i]]
                  /\ UNCHANGED inputBuffer_A
          /\ putCopied' = putCopied \cup { i }
    /\ UNCHANGED << aCircleFaustDSP, outputBuffer_A, outputBuffer_B,
                    currentInputBuffer, currentOutputBuffer, useBufferA,
                    inputLeft, inputRight, outputLeft, outputRight,
                    driverVars, pcPut, putArg, putSize, putRegion,
                    pcGet, getSize, iGet, getRegion, cvVars, midiVars, perfVars, readVars, codecVars >>

\* PutChunk's pointer store switching the selector as well.
PutSetPointerFlips ==
    /\ pcPut = "copy"
    /\ putCopied = 0 .. putSize - 1
    /\ currentInputBuffer' = putRegion
    /\ useBufferA' = ~useBufferA
    /\ pcPut' = "log"
    /\ UNCHANGED << aCircleFaustDSP, inputBuffer_A, inputBuffer_B, outputBuffer_A,
                    outputBuffer_B, currentOutputBuffer,
                    inputLeft, inputRight, outputLeft, outputRight,
                    driverVars,
                    putArg, putSize, putRegion, putCopied, pcGet, getSize, iGet, getRegion, cvVars, midiVars, perfVars, readVars, codecVars >>

\* currentInputBuffer = inputBuffer_A / inputBuffer_B;
PutSetPointer ==
    /\ pcPut = "copy"
    /\ putCopied = 0 .. putSize - 1
    /\ currentInputBuffer' = putRegion
    /\ pcPut' = "log"
    /\ UNCHANGED << aCircleFaustDSP, inputBuffer_A, inputBuffer_B, outputBuffer_A,
                    outputBuffer_B, currentOutputBuffer, useBufferA,
                    inputLeft, inputRight, outputLeft, outputRight,
                    driverVars,
                    putArg, putSize, putRegion, putCopied, pcGet, getSize, iGet, getRegion, cvVars, midiVars, perfVars, readVars, codecVars >>

\* PutChunk returns: after the warning of a wrong length, or after the
\* debug block, which reads the caller's block only and may log.
PutReturn ==
    /\ pcPut = "log"
    /\ IF putSize # AUDIO_BLOCK_SIZE
       THEN /\ calls' = Append(calls, "badput")
            /\ UNCHANGED lastPut
       ELSE /\ calls' = Append(calls, "put")
            /\ lastPut' = putArg
    /\ lastSize' = putSize
    /\ pcPut' = "idle"
    /\ UNCHANGED << audioVars, pBuffer, getResult, readBlock,
                    putArg, putSize, putRegion, putCopied, pcGet, getSize, iGet, getRegion, cvVars, midiVars, perfVars, readVars, codecVars >>

\* GetChunk is entered with a fresh output block.
GetCall ==
    /\ pcGet = "idle"
    /\ InFlight < MaxStepCalls
    /\ \E n \in ChunkSizes :
          /\ getSize' = n
          /\ pBuffer' = FreshBlock(n)
    /\ pcGet' = "check"
    /\ UNCHANGED << audioVars, getResult, lastSize, lastPut, readBlock, calls,
                    pcPut, putArg, putSize, putRegion, putCopied, iGet, getRegion, cvVars, midiVars, perfVars, readVars, codecVars >>

\* if (nChunkSize != GetAudioBlockSize()) { log; return 0; } a build that
\* keeps currentInputBuffer in a register over the loop loads it on the way
\* in.
GetCheck ==
    /\ pcGet = "check"
    /\ IF getSize # AUDIO_BLOCK_SIZE
       THEN /\ pcGet' = "return"
            /\ UNCHANGED << iGet, getRegion >>
       ELSE /\ pcGet' = "loop"
            /\ iGet' = 0
            /\ getRegion' = ReadRegion
    /\ UNCHANGED << audioVars, driverVars,
                    pcPut, putArg, putSize, putRegion, putCopied, getSize, cvVars, midiVars, perfVars, readVars, codecVars >>

\* one iteration: pBuffer[i] = s24_to_u32(u32_to_s24(currentInputBuffer[i]) / 2)
\* currentInputBuffer is a plain member that PutChunk may store to meanwhile:
\* the iteration uses the value loaded last or loads the member again, as
\* the build has it.
GetLoop ==
    /\ pcGet = "loop"
    /\ iGet < getSize
    /\ \E region \in { getRegion, ReadRegion } :
          /\ readBlock' = [readBlock EXCEPT ![iGet] = InputRegion(region)[iGet]]
          /\ pBuffer' = [pBuffer EXCEPT ![iGet] = Attenuate(InputRegion(region)[iGet])]
          /\ getRegion' = region
    /\ iGet' = iGet + 1
    /\ UNCHANGED << audioVars, getResult, lastSize, lastPut, calls,
                    pcPut, putArg, putSize, putRegion, putCopied, pcGet, getSize, cvVars, midiVars, perfVars, readVars, codecVars >>

\* useBufferA = !useBufferA;
GetFlip ==
    /\ pcGet = "loop"
    /\ iGet = getSize
    /\ useBufferA' = ~useBufferA
    /\ pcGet' = "pointers"
    /\ UNCHANGED << aCircleFaustDSP, inputBuffer_A, inputBuffer_B, outputBuffer_A,
                    outputBuffer_B, currentInputBuffer, currentOutputBuffer,
                    inputLeft, inputRight, outputLeft, outputRight,
                    driverVars, pcPut, putArg, putSize, putRegion, putCopied,
                    getSize, iGet, getRegion, cvVars, midiVars, perfVars, readVars, codecVars >>

\* if (useBufferA) { currentInputBuffer = inputBuffer_A;
\* currentOutputBuffer = outputBuffer_A; } else { ... }: two stores to plain
\* members, one a step, in the order the build has them. pcGet is
\* "pointers" before both, "output" when currentOutputBuffer is still to be
\* stored and "input" when currentInputBuffer is.
GetSetPointers ==
    /\ pcGet \in { "pointers", "output", "input" }
    /\ \E member \in IF pcGet = "pointers" THEN { "input", "output" }
                     ELSE { pcGet } :
          /\ IF member = "input"
             THEN /\ currentInputBuffer' = SelectedRegion
                  /\ UNCHANGED currentOutputBuffer
             ELSE /\ currentOutputBuffer' = SelectedRegion
                  /\ UNCHANGED currentInputBuffer
          /\ pcGet' = IF pcGet # "pointers" THEN "return"
                      ELSE IF member = "input" THEN "output" ELSE "input"
    /\ UNCHANGED << aCircleFaustDSP, inputBuffer_A, inputBuffer_B, outputBuffer_A,
                    outputBuffer_B, useBufferA,
                    inputLeft, inputRight, outputLeft, outputRight,
                    driverVars, pcPut, putArg, putSize, putRegion, putCopied,
                    getSize, iGet, getRegion, cvVars, midiVars, perfVars, readVars, codecVars >>

\* return 0; after the warning of a wrong length, return nChunkSize; after
\* the debug block
GetReturn ==
    /\ pcGet = "return"
    /\ IF getSize # AUDIO_BLOCK_SIZE
       THEN /\ getResult' = 0
            /\ calls' = Append(calls, "badget")
       ELSE /\ getResult' = getSize
            /\ calls' = Append(calls, "get")
    /\ lastSize' = getSize
    /\ pcGet' = "idle"
    /\ UNCHANGED << audioVars, pBuffer, lastPut, readBlock,
                    pcPut, putArg, putSize, putRegion, putCopied, getSize, iGet, getRegion, cvVars, midiVars, perfVars, readVars, codecVars >>

NextConc ==
    \/ PutCall \/ PutCheck \/ PutSelect \/ PutCopy \/ PutSetPointer \/ PutReturn
    \/ GetCall \/ GetCheck \/ GetLoop \/ GetFlip \/ GetSetPointers \/ GetReturn

SpecConc == InitConc /\ [][NextConc]_vars

----------------------------------------------------------------------------
(* The format converter applied to one sample: a float goes through
   convertFloatToOutput's conversion, the code it yields through
   convertInputToFloat's *)

Fin(s, m, e) == [cls |-> "fin", sign |-> s, man |-> m, exp |-> e]
Inf(s) == [cls |-> "inf", sign |-> s, man |-> 0, exp |-> 0]
NaN == [cls |-> "nan", sign |-> 0, man |-> 0, exp |-> 0]

\* Mantissas of normal numbers: the ends of the range and some in between.
Mantissas ==
    { TwoTo23 + k : k \in 0 .. MantSpan } \cup
    { TwoTo24 - 1 - k : k \in 0 .. MantSpan } \cup
    { TwoTo23 + 699051 * k : k \in 1 .. 11 } \cup
    { 11184811, 16777214 - 4096 }
\* Exponents: 2^-23 <= |x| < 4 for -46 .. -22, smaller magnitudes below.
Exponents == (-49 .. -22) \cup { -149, -100 }

FloatInputs ==
    { Fin(s, m, e) : s \in {0, 1}, m \in Mantissas, e \in Exponents } \cup
    { Fin(s, m, -149) : s \in {0, 1}, m \in {0, 1, TwoTo23 - 1} } \cup
    { Inf(0), Inf(1), NaN }

InitConv ==
    /\ InitAudio /\ InitDriver /\ InitSteps /\ InitMidi /\ InitPerf /\ InitReader /\ InitCodec
    /\ MidiZeroed
    /\ aCircleFaustDSP = "dsp" /\ inputLeft = outputLeft
    /\ inputLeft = [i \in 0 .. NUM_FRAMES - 1 |-> F32Zero(0)]
    /\ cvPc = "float"
    /\ cvIn \in FloatInputs
    /\ cvCode = ZeroWord
    /\ cvBack = F32Zero(0)

ApplyFromFloat ==
    /\ cvPc = "float"
    /\ cvCode' = FromFloat(cvIn)
    /\ cvPc' = "code"
    /\ UNCHANGED << audioVars, driverVars, stepVars, cvIn, cvBack,
                    midiVars, perfVars, readVars, codecVars >>

ApplyToFloat ==
    /\ cvPc = "code"
    /\ cvBack' = ToFloat(cvCode)
    /\ cvPc' = "back"
    /\ UNCHANGED << audioVars, driverVars, stepVars, cvIn, cvCode,
                    midiVars, perfVars, readVars, codecVars >>

NextConv == ApplyFromFloat \/ ApplyToFloat

SpecConv == InitConv /\ [][NextConv]_vars

----------------------------------------------------------------------------
(* convertInputToFloat's conversion applied to a raw word of the input
   buffer, whatever its upper byte holds *)

UpperBytes == { 0, 1, 128, 255 }
LowerBits ==
    { k : k \in 0 .. MantSpan } \cup
    { TwoTo23 - 1 - k : k \in 0 .. MantSpan } \cup
    { TwoTo23 + k : k \in 0 .. MantSpan } \cup
    { TwoTo24 - 1 - k : k \in 0 .. MantSpan } \cup
    { 4194304, 5592405, 11184810, 12582912 }
RawWords == { Word(hi, lo) : hi \in UpperBytes, lo \in LowerBits }

InitRaw ==
    /\ InitAudio /\ InitDriver /\ InitSteps /\ InitMidi /\ InitPerf /\ InitReader /\ InitCodec
    /\ MidiZeroed
    /\ aCircleFaustDSP = "dsp" /\ inputLeft = outputLeft
    /\ inputLeft = [i \in 0 .. NUM_FRAMES - 1 |-> F32Zero(0)]
    /\ cvPc = "code"
    /\ cvIn = F32Zero(0)
    /\ cvCode \in RawWords
    /\ cvBack = F32Zero(0)

NextRaw == ApplyToFloat

SpecRaw == InitRaw /\ [][NextRaw]_vars

----------------------------------------------------------------------------
(* MIDI normalizer (audio.hpp 53-77, 98; kernel.cpp 119-130). The object is
   handled as a record of CAudio's MIDI members and the event sink, so that
   one handler can call another. *)

HighNibble(uchData) == uchData \div 16
LowNibble(uchData) == uchData % 16
StatusBit(uchData) == uchData >= 128

\* Every status byte starts a message.
AcceptedAnyStatus(uchData) == StatusBit(uchData)

\* The message classes the byte-stream parser accepts: Note Off (0x8),
\* Note On (0x9), Control Change (0xB).
Accepted(uchData) == HighNibble(uchData) \in { 8, 9, 11 }

\* The event types by the high nibble of the status byte.
TypeName(ucType) ==
    CASE ucType = 8 -> "NoteOff"
      [] ucType = 9 -> "NoteOn"
      [] ucType = 11 -> "ControlChange"
      [] ucType = 12 -> "ProgramChange"
      [] ucType = 13 -> "ChannelPressure"
      [] ucType = 14 -> "PitchBend"
      [] OTHER -> "none"

\* The normalization with Note On of velocity 0 left as Note On.
NormalizeKeepZero(ucStatus, data1, data2) ==
    [ type |-> HighNibble(ucStatus), channel |-> LowNibble(ucStatus),
      data1 |-> data1,
      data2 |-> IF HighNibble(ucStatus) \in { 12, 13 } THEN 0 ELSE data2 ]

\* The normalized message: channel and type from the status byte, Note On
\* with velocity 0 turned into Note Off, the second data byte of Program
\* Change and Channel Pressure zeroed.
Normalize(ucStatus, data1, data2) ==
    [ type |-> IF HighNibble(ucStatus) = 9 /\ data2 = 0 THEN 8
               ELSE HighNibble(ucStatus),
      channel |-> LowNibble(ucStatus),
      data1 |-> data1,
      data2 |-> IF HighNibble(ucStatus) \in { 12, 13 } THEN 0 ELSE data2 ]

MidiEvent(n) ==
    [ type |-> TypeName(n.type), channel |-> n.channel,
      data1 |-> n.data1, data2 |-> n.data2 ]

\* The common normalization step on a three-byte message: the normalized
\* message becomes the current one and, if it is of an event type, goes to
\* the event sink.
CommonNormalization(this, pPacket) ==
    LET n == Normalize(pPacket[1], pPacket[2], pPacket[3])
        cur == [this EXCEPT !.m_nMidiType = n.type,
                            !.m_nMidiChannel = n.channel,
                            !.m_nMidiData1 = n.data1,
                            !.m_nMidiData2 = n.data2,
                            !.normCalls = @ + 1]
    IN  IF TypeName(n.type) = "none" THEN cur
        ELSE [cur EXCEPT !.events = Append(@, MidiEvent(n))]

\* MIDIPacketHandler with the length check left out: a short packet is
\* read as if it had three bytes.
MIDIPacketHandlerNoCheck(this, pPacket, nLength) ==
    CommonNormalization(this, pPacket \o << 0, 0, 0 >>)

\* MIDIPacketHandler(nCable, pPacket, nLength): packets shorter than three
\* bytes are discarded.
MIDIPacketHandler(this, pPacket, nLength) ==
    IF nLength < 3 THEN this
    ELSE CommonNormalization(this, pPacket)

\* ProcessMidiByte taking a status byte in a data position as data.
ProcessMidiByteNoResync(this, uchData) ==
    IF this.m_nSerialState = 0
    THEN IF Accepted(uchData)
         THEN [this EXCEPT !.m_SerialMessage[1] = uchData, !.m_nSerialState = 1]
         ELSE this
    ELSE LET staged == [this EXCEPT
                 !.m_SerialMessage[this.m_nSerialState + 1] = uchData,
                 !.m_nSerialState = @ + 1]
         IN  IF staged.m_nSerialState = 3
             THEN [MIDIPacketHandler(staged, staged.m_SerialMessage, 3)
                       EXCEPT !.m_nSerialState = 0]
             ELSE staged

\* ProcessMidiByte dropping the status byte that interrupts a message.
ProcessMidiByteDropsStatus(this, uchData) ==
    IF this.m_nSerialState = 0
    THEN IF Accepted(uchData)
         THEN [this EXCEPT !.m_SerialMessage[1] = uchData, !.m_nSerialState = 1]
         ELSE this
    ELSE IF StatusBit(uchData) THEN [this EXCEPT !.m_nSerialState = 0]
    ELSE LET staged == [this EXCEPT
                 !.m_SerialMessage[this.m_nSerialState + 1] = uchData,
                 !.m_nSerialState = @ + 1]
         IN  IF staged.m_nSerialState = 3
             THEN [MIDIPacketHandler(staged, staged.m_SerialMessage, 3)
                       EXCEPT !.m_nSerialState = 0]
             ELSE staged

\* ProcessMidiByte handing the message over one byte early.
ProcessMidiByteEarly(this, uchData) ==
    IF this.m_nSerialState = 0 \/ StatusBit(uchData)
    THEN IF Accepted(uchData)
         THEN [this EXCEPT !.m_SerialMessage[1] = uchData, !.m_nSerialState = 1]
         ELSE [this EXCEPT !.m_nSerialState = 0]
    ELSE LET staged == [this EXCEPT
                 !.m_SerialMessage[this.m_nSerialState + 1] = uchData,
                 !.m_nSerialState = @ + 1]
         IN  IF staged.m_nSerialState = 2
             THEN [MIDIPacketHandler(staged, staged.m_SerialMessage, 3)
                       EXCEPT !.m_nSerialState = 0]
             ELSE staged

\* ProcessMidiByte(uchData), the byte-stream parser. In Idle only a status
\* byte of an accepted class starts a message. A byte with the status bit set
\* where a data byte is expected drops the message in progress and is looked
\* at again as in Idle. The third byte completes the message: it goes to the
\* common normalization and the parser is Idle again.
ProcessMidiByte(this, uchData) ==
    IF this.m_nSerialState = 0 \/ StatusBit(uchData)
    THEN IF Accepted(uchData)
         THEN [this EXCEPT !.m_SerialMessage[1] = uchData, !.m_nSerialState = 1]
         ELSE [this EXCEPT !.m_nSerialState = 0]
    ELSE LET staged == [this EXCEPT
                 !.m_SerialMessage[this.m_nSerialState + 1] = uchData,
                 !.m_nSerialState = @ + 1]
         IN  IF staged.m_nSerialState = 3
             THEN [MIDIPacketHandler(staged, staged.m_SerialMessage, 3)
                       EXCEPT !.m_nSerialState = 0]
             ELSE staged

\* What the trace keeps of one input: the input, the parser state and the
\* numbers of events and of normalized messages before it.
TraceEntry(this, kind, data) ==
    [ kind |-> kind, data |-> data, state |-> this.m_nSerialState,
      events |-> Len(this.events), norm |-> this.normCalls ]

\* The bytes of one serial read, in order.
RECURSIVE ReadSerial(_, _)
ReadSerial(this, Buffer) ==
    IF Buffer = << >> THEN this
    ELSE ReadSerial(
             [ProcessMidiByte(this, Head(Buffer)) EXCEPT
                 !.midiTrace = Append(@, TraceEntry(this, "byte", Head(Buffer)))],
             Tail(Buffer))

\* USBDeviceRemovedHandler(pDevice, pContext): the device bound is gone.
USBDeviceRemovedHandler(this) == [this EXCEPT !.m_pMIDIDevice = 0]

\* ProcessMidi(bPlugAndPlayUpdated): after a change of the USB topology and
\* with no device bound, look the MIDI device up and, if there is one, bind it
\* and register the removal and packet handlers with it; then take the bytes
\* the serial source has delivered.
ProcessMidi(this, bPlugAndPlayUpdated, pDevice, Buffer) ==
    ReadSerial(
        IF bPlugAndPlayUpdated /\ this.m_pMIDIDevice = 0 /\ pDevice # 0
        THEN [this EXCEPT !.m_pMIDIDevice = pDevice, !.registered = pDevice]
        ELSE this,
        Buffer)

\* The MIDI members and the sink as a record, and back.
ThisMidi ==
    [ m_nSerialState |-> m_nSerialState, m_SerialMessage |-> m_SerialMessage,
      m_pMIDIDevice |-> m_pMIDIDevice, m_nMidiType |-> m_nMidiType,
      m_nMidiChannel |-> m_nMidiChannel, m_nMidiData1 |-> m_nMidiData1,
      m_nMidiData2 |-> m_nMidiData2, events |-> events,
      normCalls |-> normCalls, midiTrace |-> midiTrace,
      registered |-> registered ]

SetMidi(this) ==
    /\ m_nSerialState' = this.m_nSerialState
    /\ m_SerialMessage' = this.m_SerialMessage
    /\ m_pMIDIDevice' = this.m_pMIDIDevice
    /\ m_nMidiType' = this.m_nMidiType
    /\ m_nMidiChannel' = this.m_nMidiChannel
    /\ m_nMidiData1' = this.m_nMidiData1
    /\ m_nMidiData2' = this.m_nMidiData2
    /\ events' = this.events
    /\ normCalls' = this.normCalls
    /\ midiTrace' = this.midiTrace
    /\ registered' = this.registered

\* Bytes of the serial source: Note On, Note Off, Control Change on channel
\* 2, Program Change (not accepted), and data bytes.
MidiBytes == { 144, 128, 178, 192, 60, 100, 0 }
SerialReads == { << b >> : b \in MidiBytes }
NoRead == { << >> }
\* Packets of the USB source: Note On with velocity 0, Note On, and a Program
\* Change of two bytes.
MidiPackets == { << 145, 64, 0 >>, << 144, 60, 100 >>, << 192, 5 >> }

\* What the lookup of a USB MIDI device can return: one of those attached,
\* 0 if there is none.
DeviceFound == IF devicePresent = { } THEN { 0 } ELSE devicePresent

\* One turn of CKernel::Run's loop: UpdatePlugAndPlay(), then ProcessMidi
\* with what it returned.
RunLoop(reads) ==
    \E Buffer \in reads, pDevice \in DeviceFound :
        /\ Len(midiTrace) + Len(Buffer) <= MaxMidiInputs
        /\ SetMidi(ProcessMidi(ThisMidi, plugAndPlayUpdated, pDevice, Buffer))
        /\ plugAndPlayUpdated' = FALSE
        /\ UNCHANGED << devicePresent, plugCount >>
        /\ UNCHANGED << audioVars, driverVars, stepVars, cvVars, perfVars, readVars, codecVars >>

\* The device bound delivers a packet to the registered handler.
PacketArrives(limit) ==
    /\ registered # 0
    /\ Len(midiTrace) < limit
    /\ \E pPacket \in MidiPackets :
          SetMidi([MIDIPacketHandler(ThisMidi, pPacket, Len(pPacket)) EXCEPT
              !.midiTrace = Append(@, TraceEntry(ThisMidi, "packet", pPacket))])
    /\ UNCHANGED << devicePresent, plugAndPlayUpdated, plugCount >>
    /\ UNCHANGED << audioVars, driverVars, stepVars, cvVars, perfVars, readVars, codecVars >>

\* A USB MIDI device is attached: the topology has changed.
Attach ==
    /\ Cardinality(devicePresent) < MaxDevices
    /\ plugCount < MaxPlugs
    /\ devicePresent' = devicePresent \cup { plugCount + 1 }
    /\ plugAndPlayUpdated' = TRUE
    /\ plugCount' = plugCount + 1
    /\ UNCHANGED << m_nSerialState, m_SerialMessage, m_pMIDIDevice, m_nMidiType,
                    m_nMidiChannel, m_nMidiData1, m_nMidiData2, events,
                    normCalls, midiTrace, registered >>
    /\ UNCHANGED << audioVars, driverVars, stepVars, cvVars, perfVars, readVars, codecVars >>

\* A device is removed: the topology has changed, and the device calls the
\* removal handler registered with it.
Detach ==
    /\ plugCount < MaxPlugs
    /\ \E pDevice \in devicePresent :
          /\ SetMidi(IF registered = pDevice
                     THEN [USBDeviceRemovedHandler(ThisMidi) EXCEPT !.registered = 0]
                     ELSE ThisMidi)
          /\ devicePresent' = devicePresent \ { pDevice }
    /\ plugAndPlayUpdated' = TRUE
    /\ plugCount' = plugCount + 1
    /\ UNCHANGED << audioVars, driverVars, stepVars, cvVars, perfVars, readVars, codecVars >>

\* The byte and packet paths, the device attached from the start. The four
\* bytes of the current message are written by the normalization before
\* anything uses them: one initial content of them is enough here.
InitMidiPaths ==
    /\ InitAudio /\ InitDriver /\ InitSteps /\ IdleConverter /\ InitPerf /\ InitReader /\ InitCodec
    /\ aCircleFaustDSP = "dsp" /\ inputLeft = outputLeft
    /\ inputLeft = [i \in 0 .. NUM_FRAMES - 1 |-> F32Zero(0)]
    /\ m_nSerialState = 0
    /\ m_SerialMessage = << 0, 0, 0 >>
    /\ m_pMIDIDevice \in UninitialisedPointers
    /\ m_nMidiType = 0
    /\ m_nMidiChannel = 0
    /\ m_nMidiData1 = 0
    /\ m_nMidiData2 = 0
    /\ events = << >>
    /\ normCalls = 0
    /\ midiTrace = << >>
    /\ registered = 0
    /\ devicePresent = { 1 }
    /\ plugAndPlayUpdated = TRUE
    /\ plugCount = 1

NextMidi == RunLoop(SerialReads \cup NoRead) \/ PacketArrives(MaxMidiInputs)

SpecMidi == InitMidiPaths /\ [][NextMidi]_vars

\* Attachment and removal of the device, the serial source silent.
InitBind ==
    /\ InitAudio /\ InitDriver /\ InitSteps /\ IdleConverter /\ InitPerf /\ InitReader /\ InitCodec
    /\ InitMidi
    /\ aCircleFaustDSP = "dsp" /\ inputLeft = outputLeft
    /\ inputLeft = [i \in 0 .. NUM_FRAMES - 1 |-> F32Zero(0)]

NextBind == Attach \/ Detach \/ RunLoop(NoRead) \/ PacketArrives(MaxPlugPackets)

SpecBind == InitBind /\ [][NextBind]_vars

\* The loop of CKernel::Run never ends.
SpecBindFair == SpecBind /\ WF_vars(RunLoop(NoRead))

----------------------------------------------------------------------------
(* Performance monitor (performancemonitor.cpp) *)

\* a - b stopping at 0 instead of wrapping round.
U32SubClamped(a, b) ==
    IF a[1] < b[1] \/ (a[1] = b[1] /\ a[2] < b[2]) THEN << 0, 0 >>
    ELSE LET borrow == IF a[2] < b[2] THEN 1 ELSE 0
         IN  << a[1] - b[1] - borrow, (a[2] - b[2]) % TwoTo24 >>

\* a - b on unsigned 32-bit values <<high 8 bits, low 24 bits>>.
U32Sub(a, b) ==
    LET borrow == IF a[2] < b[2] THEN 1 ELSE 0
    IN  << (a[1] - b[1] - borrow) % 256, (a[2] - b[2]) % TwoTo24 >>

ClockTicksToMicroseconds(ticks) == F32FromU32(ticks)

\* CalculateCPUUsage returning the fraction of the budget, not the percentage.
CalculateCPUUsageFraction(processingTimeUs, numSamples) ==
    IF m_nSampleRate = 0 \/ numSamples = 0 THEN F32Zero(0)
    ELSE LET availableTimeUs ==
                 F32Div(F32Mul(F32FromInt(numSamples), F32FromInt(1000000)),
                        F32FromInt(m_nSampleRate))
         IN  F32Div(processingTimeUs, availableTimeUs)

CalculateCPUUsage(processingTimeUs, numSamples) ==
    IF m_nSampleRate = 0 \/ numSamples = 0 THEN F32Zero(0)
    ELSE LET availableTimeUs ==
                 F32Div(F32Mul(F32FromInt(numSamples), F32FromInt(1000000)),
                        F32FromInt(m_nSampleRate))
         IN  F32Mul(F32Div(processingTimeUs, availableTimeUs), F32FromInt(100))

\* What the handlers of the monitor write, the log of calls apart.
perfData == << m_nSampleRate, m_nBufferSize, m_nMaxSamples, m_nStartTicks,
               m_nEndTicks, m_bTimingActive, m_pClockCycles,
               m_pProcessingTimes, m_pCPUUsages, m_nCurrentIndex,
               m_nValidSamples, m_LastResult >>

\* StartTiming(); now is what CTimer::GetClockTicks() returns.
StartTiming(now) ==
    /\ clockTicks' = now
    /\ m_nStartTicks' = now
    /\ m_bTimingActive' = TRUE
    /\ UNCHANGED << m_nSampleRate, m_nBufferSize, m_nMaxSamples, m_nEndTicks,
                    m_pClockCycles, m_pProcessingTimes, m_pCPUUsages,
                    m_nCurrentIndex, m_nValidSamples, m_LastResult >>

\* The sample EndTiming stores: what it computes from the two readings.
TimingSample(numSamplesProcessed, now) ==
    LET clockCycles == U32Sub(now, m_nStartTicks)
        processingTimeUs == ClockTicksToMicroseconds(clockCycles)
    IN  [ clockCycles |-> clockCycles,
          processingTimeUs |-> processingTimeUs,
          cpuUsagePercent |->
              CalculateCPUUsage(processingTimeUs, numSamplesProcessed) ]

\* The history of the samples stored and of the timer's readings.
perfHistory == << perfSamples, perfAppended, clockTicks >>

\* What a call of EndTiming that closes a timing writes (lines 81-105), the
\* slot written and the index and count left given; the sample stored joins
\* the history.
CloseTiming(numSamplesProcessed, sample, now, slot, nextIndex, nextValid) ==
    /\ clockTicks' = now
    /\ m_nEndTicks' = now
    /\ m_bTimingActive' = FALSE
    /\ m_pClockCycles' = [m_pClockCycles EXCEPT ![slot] = sample.clockCycles]
    /\ m_pProcessingTimes' =
           [m_pProcessingTimes EXCEPT ![slot] = sample.processingTimeUs]
    /\ m_pCPUUsages' = [m_pCPUUsages EXCEPT ![slot] = sample.cpuUsagePercent]
    /\ m_LastResult' = sample
    /\ m_nCurrentIndex' = nextIndex
    /\ m_nValidSamples' = nextValid
    /\ perfSamples' = Append(perfSamples, [ n |-> numSamplesProcessed,
                                            rate |-> m_nSampleRate,
                                            sample |-> sample ])
    /\ perfAppended' = perfAppended + 1
    /\ UNCHANGED << m_nSampleRate, m_nBufferSize, m_nMaxSamples, m_nStartTicks >>

\* EndTiming storing a sample whether or not a timing is open.
EndTimingNoCheck(numSamplesProcessed, now) ==
    \E sample \in { TimingSample(numSamplesProcessed, now) } :
        CloseTiming(numSamplesProcessed, sample, now, m_nCurrentIndex,
                    (m_nCurrentIndex + 1) % m_nMaxSamples,
                    IF m_nValidSamples < m_nMaxSamples
                    THEN m_nValidSamples + 1 ELSE m_nValidSamples)

\* EndTiming counting every sample, the buffer full or not.
EndTimingCountsOn(numSamplesProcessed, now) ==
    IF ~m_bTimingActive THEN UNCHANGED << perfData, perfHistory >>
    ELSE \E sample \in { TimingSample(numSamplesProcessed, now) } :
             CloseTiming(numSamplesProcessed, sample, now, m_nCurrentIndex,
                         (m_nCurrentIndex + 1) % m_nMaxSamples,
                         m_nValidSamples + 1)

\* EndTiming writing every sample past the first `capacity` to the last slot
\* filled, the running index advancing all the same.
EndTimingKeepsOldest(numSamplesProcessed, now) ==
    IF ~m_bTimingActive THEN UNCHANGED << perfData, perfHistory >>
    ELSE \E sample \in { TimingSample(numSamplesProcessed, now) } :
             CloseTiming(numSamplesProcessed, sample, now,
                         IF m_nValidSamples < m_nMaxSamples
                         THEN m_nCurrentIndex ELSE m_nMaxSamples - 1,
                         (m_nCurrentIndex + 1) % m_nMaxSamples,
                         IF m_nValidSamples < m_nMaxSamples
                         THEN m_nValidSamples + 1 ELSE m_nValidSamples)

\* EndTiming resetting the running index to 0 only once it has passed the
\* capacity.
EndTimingLateWrap(numSamplesProcessed, now) ==
    IF ~m_bTimingActive THEN UNCHANGED << perfData, perfHistory >>
    ELSE \E sample \in { TimingSample(numSamplesProcessed, now) } :
             CloseTiming(numSamplesProcessed, sample, now,
                         m_nCurrentIndex % m_nMaxSamples,
                         IF m_nCurrentIndex >= m_nMaxSamples
                         THEN 1 ELSE m_nCurrentIndex + 1,
                         IF m_nValidSamples < m_nMaxSamples
                         THEN m_nValidSamples + 1 ELSE m_nValidSamples)

\* EndTiming taking a timing it has closed as still open.
EndTimingStaysOpen(numSamplesProcessed, now) ==
    IF ~m_bTimingActive /\ perfAppended = 0
    THEN UNCHANGED << perfData, perfHistory >>
    ELSE \E sample \in { TimingSample(numSamplesProcessed, now) } :
             CloseTiming(numSamplesProcessed, sample, now, m_nCurrentIndex,
                         (m_nCurrentIndex + 1) % m_nMaxSamples,
                         IF m_nValidSamples < m_nMaxSamples
                         THEN m_nValidSamples + 1 ELSE m_nValidSamples)

\* EndTiming(numSamplesProcessed); now is what CTimer::GetClockTicks()
\* returns. A call with no timing open returns at once; the others store the
\* sample at m_nCurrentIndex, advance the index modulo m_nMaxSamples and
\* raise m_nValidSamples while it is below m_nMaxSamples.
EndTiming(numSamplesProcessed, now) ==
    IF ~m_bTimingActive THEN UNCHANGED << perfData, perfHistory >>
    ELSE \E sample \in { TimingSample(numSamplesProcessed, now) } :
             CloseTiming(numSamplesProcessed, sample, now, m_nCurrentIndex,
                         (m_nCurrentIndex + 1) % m_nMaxSamples,
                         IF m_nValidSamples < m_nMaxSamples
                         THEN m_nValidSamples + 1 ELSE m_nValidSamples)

\* ResetStatistics clearing the index and the count and leaving the arrays
\* and the last result as they are.
ResetStatisticsKeepsData ==
    /\ m_nCurrentIndex' = 0
    /\ m_nValidSamples' = 0
    /\ UNCHANGED << m_nSampleRate, m_nBufferSize, m_nMaxSamples, m_nStartTicks,
                    m_nEndTicks, m_bTimingActive, m_pClockCycles,
                    m_pProcessingTimes, m_pCPUUsages, m_LastResult >>

ResetStatistics ==
    /\ m_nCurrentIndex' = 0
    /\ m_nValidSamples' = 0
    /\ m_pClockCycles' = [i \in 0 .. m_nMaxSamples - 1 |-> ZeroWord]
    /\ m_pProcessingTimes' = [i \in 0 .. m_nMaxSamples - 1 |-> F32Zero(0)]
    /\ m_pCPUUsages' = [i \in 0 .. m_nMaxSamples - 1 |-> F32Zero(0)]
    /\ m_LastResult' = [ clockCycles |-> ZeroWord,
                         processingTimeUs |-> F32Zero(0),
                         cpuUsagePercent |-> F32Zero(0) ]
    /\ UNCHANGED << m_nSampleRate, m_nBufferSize, m_nMaxSamples, m_nStartTicks,
                    m_nEndTicks, m_bTimingActive >>

\* sum += data[i] on an unsigned long long <<bits 63..24, bits 23..0>>.
U64Add(sum, w) ==
    LET lo == sum[2] + w[2]
    IN  << sum[1] + w[1] + lo \div TwoTo24, lo % TwoTo24 >>

\* a < b on unsigned 32-bit values.
U32Less(a, b) == a[1] < b[1] \/ (a[1] = b[1] /\ a[2] < b[2])

\* The body of the loop of each of the four helpers.
LoopBody(helper, acc, x) ==
    CASE helper = "float average"    -> F32Add(acc, x)
      [] helper = "float max"        -> IF F32Less(acc, x) THEN x ELSE acc
      [] helper = "unsigned average" -> U64Add(acc, x)
      [] helper = "unsigned max"     -> IF U32Less(acc, x) THEN x ELSE acc

\* The loops of CalculateAverage and CalculateMax: data[i], data[i + 1], ...,
\* data[count - 1] taken into acc in this order.
RECURSIVE FoldData(_, _, _, _, _)
FoldData(helper, data, count, i, acc) ==
    IF i >= count THEN acc
    ELSE FoldData(helper, data, count, i + 1, LoopBody(helper, acc, data[i]))

\* CalculateAverage(const float*, unsigned)
CalculateAverageFloat(data, count) ==
    IF count = 0 THEN F32Zero(0)
    ELSE F32Div(FoldData("float average", data, count, 0, F32Zero(0)),
                F32FromInt(count))

\* CalculateMax(const float*, unsigned)
CalculateMaxFloat(data, count) ==
    IF count = 0 THEN F32Zero(0)
    ELSE FoldData("float max", data, count, 1, data[0])

\* CalculateAverage(const unsigned*, unsigned): (unsigned)(sum / count), the
\* sum in 64 bits.
CalculateAverageUnsigned(data, count) ==
    IF count = 0 THEN ZeroWord
    ELSE LET sum  == FoldData("unsigned average", data, count, 0, ZeroWord)
             rest == (sum[1] % count) * TwoTo24 + sum[2]
         IN  << (sum[1] \div count) % 256, rest \div count >>

\* CalculateMax(const unsigned*, unsigned)
CalculateMaxUnsigned(data, count) ==
    IF count = 0 THEN ZeroWord
    ELSE FoldData("unsigned max", data, count, 1, data[0])

\* The six read accessors on the buffers and the count given.
GetAverageCPUUsagePercent(cpuUsages, validSamples) ==
    IF validSamples = 0 THEN F32Zero(0)
    ELSE CalculateAverageFloat(cpuUsages, validSamples)
GetMaxCPUUsagePercent(cpuUsages, validSamples) ==
    IF validSamples = 0 THEN F32Zero(0)
    ELSE CalculateMaxFloat(cpuUsages, validSamples)
GetAverageClockCycles(clockCycles, validSamples) ==
    IF validSamples = 0 THEN ZeroWord
    ELSE CalculateAverageUnsigned(clockCycles, validSamples)
GetMaxClockCycles(clockCycles, validSamples) ==
    IF validSamples = 0 THEN ZeroWord
    ELSE CalculateMaxUnsigned(clockCycles, validSamples)
GetAverageProcessingTimeUs(processingTimes, validSamples) ==
    IF validSamples = 0 THEN F32Zero(0)
    ELSE CalculateAverageFloat(processingTimes, validSamples)
GetMaxProcessingTimeUs(processingTimes, validSamples) ==
    IF validSamples = 0 THEN F32Zero(0)
    ELSE CalculateMaxFloat(processingTimes, validSamples)

\* What the six accessors return on buffers and a count.
Accessors(clockCycles, processingTimes, cpuUsages, validSamples) ==
    [ avgCPU    |-> GetAverageCPUUsagePercent(cpuUsages, validSamples),
      maxCPU    |-> GetMaxCPUUsagePercent(cpuUsages, validSamples),
      avgCycles |-> GetAverageClockCycles(clockCycles, validSamples),
      maxCycles |-> GetMaxClockCycles(clockCycles, validSamples),
      avgTime   |-> GetAverageProcessingTimeUs(processingTimes, validSamples),
      maxTime   |-> GetMaxProcessingTimeUs(processingTimes, validSamples) ]

\* What the six accessors return in the current state.
AccessorResults ==
    Accessors(m_pClockCycles, m_pProcessingTimes, m_pCPUUsages, m_nValidSamples)

\* Readings of the 1 MHz tick counter: two around half a period's budget
\* apart, one shortly before the counter wraps.
ClockTicks == { Word(0, 1000), Word(0, 3667), Word(255, TwoTo24 - 100) }
\* Sample counts passed to EndTiming(unsigned).
SampleCounts == { 0, 128 }

nonPerfVars == << audioVars, driverVars, stepVars, cvVars, midiVars,
                 readVars, codecVars >>

DoStartTiming(limit) ==
    /\ Len(perfLog) < limit
    /\ \E now \in ClockTicks : StartTiming(now)
    /\ perfLog' = Append(perfLog, "start")
    /\ UNCHANGED << perfSamples, perfAppended, nonPerfVars >>

\* EndTiming(): EndTiming(m_nBufferSize)
DoEndTiming(limit) ==
    /\ Len(perfLog) < limit
    /\ \E now \in ClockTicks : EndTiming(m_nBufferSize, now)
    /\ perfLog' = Append(perfLog, "end")
    /\ UNCHANGED nonPerfVars

DoEndTimingSamples(limit) ==
    /\ Len(perfLog) < limit
    /\ \E now \in ClockTicks, numSamplesProcessed \in SampleCounts :
          EndTiming(numSamplesProcessed, now)
    /\ perfLog' = Append(perfLog, "end")
    /\ UNCHANGED nonPerfVars

\* ResetStatistics(); the history starts anew.
DoResetStatistics(limit) ==
    /\ Len(perfLog) < limit
    /\ ResetStatistics
    /\ perfLog' = Append(perfLog, "reset")
    /\ perfSamples' = << >>
    /\ UNCHANGED << perfAppended, clockTicks, nonPerfVars >>

InitPerfOnly ==
    /\ InitAudio /\ InitDriver /\ InitSteps /\ IdleConverter /\ InitMidi
    /\ InitPerf /\ InitReader /\ InitCodec
    /\ MidiZeroed
    /\ aCircleFaustDSP = "dsp" /\ inputLeft = outputLeft
    /\ inputLeft = [i \in 0 .. NUM_FRAMES - 1 |-> F32Zero(0)]

\* SetSampleRate(sampleRate) (performancemonitor.h)
SetSampleRate(sampleRate) ==
    /\ m_nSampleRate' = sampleRate
    /\ UNCHANGED << m_nBufferSize, m_nMaxSamples, m_nStartTicks, m_nEndTicks,
                    m_bTimingActive, m_pClockCycles, m_pProcessingTimes,
                    m_pCPUUsages, m_nCurrentIndex, m_nValidSamples,
                    m_LastResult >>

\* Sample rates set: none, and one that does not divide 10^6 samples into
\* whole microseconds.
SampleRates == { 0, 44100 }

DoSetSampleRate(limit) ==
    /\ Len(perfLog) < limit
    /\ \E sampleRate \in SampleRates : SetSampleRate(sampleRate)
    /\ perfLog' = Append(perfLog, "rate")
    /\ UNCHANGED << perfHistory, nonPerfVars >>

\* SetBufferSize(bufferSize) (performancemonitor.h)
SetBufferSize(bufferSize) ==
    /\ m_nBufferSize' = bufferSize
    /\ UNCHANGED << m_nSampleRate, m_nMaxSamples, m_nStartTicks, m_nEndTicks,
                    m_bTimingActive, m_pClockCycles, m_pProcessingTimes,
                    m_pCPUUsages, m_nCurrentIndex, m_nValidSamples,
                    m_LastResult >>

\* Buffer sizes set: none, and a quarter of the constructor's 256.
BufferSizes == { 0, 64 }

DoSetBufferSize(limit) ==
    /\ Len(perfLog) < limit
    /\ \E bufferSize \in BufferSizes : SetBufferSize(bufferSize)
    /\ perfLog' = Append(perfLog, "size")
    /\ UNCHANGED << perfHistory, nonPerfVars >>

NextPerf ==
    \/ DoStartTiming(MaxPerfCalls) \/ DoEndTiming(MaxPerfCalls)
    \/ DoEndTimingSamples(MaxPerfCalls) \/ DoResetStatistics(MaxPerfCalls)

SpecPerf == InitPerfOnly /\ [][NextPerf]_vars

\* The monitor over a few calls, the sample rate and the buffer size being
\* set between them.
NextRate ==
    \/ DoSetSampleRate(MaxRateCalls) \/ DoSetBufferSize(MaxRateCalls)
    \/ DoStartTiming(MaxRateCalls)
    \/ DoEndTiming(MaxRateCalls) \/ DoEndTimingSamples(MaxRateCalls)
    \/ DoResetStatistics(MaxRateCalls)

SpecRate == InitPerfOnly /\ [][NextRate]_vars

----------------------------------------------------------------------------
(* A read accessor and an EndTiming running side by side, one memory access
   a step *)

ReadAccessors ==
    { "GetAverageCPUUsagePercent", "GetMaxCPUUsagePercent",
      "GetAverageClockCycles", "GetMaxClockCycles",
      "GetAverageProcessingTimeUs", "GetMaxProcessingTimeUs" }

\* The helper an accessor calls and the buffer it passes.
HelperOf(accessor) ==
    CASE accessor \in { "GetAverageCPUUsagePercent",
                        "GetAverageProcessingTimeUs" } -> "float average"
      [] accessor \in { "GetMaxCPUUsagePercent",
                        "GetMaxProcessingTimeUs" }     -> "float max"
      [] accessor = "GetAverageClockCycles"            -> "unsigned average"
      [] accessor = "GetMaxClockCycles"                -> "unsigned max"

DataOf(accessor) ==
    CASE accessor \in { "GetAverageCPUUsagePercent",
                        "GetMaxCPUUsagePercent" }      -> m_pCPUUsages
      [] accessor \in { "GetAverageClockCycles",
                        "GetMaxClockCycles" }          -> m_pClockCycles
      [] accessor \in { "GetAverageProcessingTimeUs",
                        "GetMaxProcessingTimeUs" }     -> m_pProcessingTimes

IsAverage(helper) == helper \in { "float average", "unsigned average" }

\* 0.0f or 0
ZeroOf(helper) ==
    IF helper \in { "float average", "float max" } THEN F32Zero(0) ELSE ZeroWord

\* data[i] > maxVal
Greater(helper, x, maxVal) ==
    IF helper = "float max" THEN F32Less(maxVal, x) ELSE U32Less(maxVal, x)

\* What the helper returns once its loop has ended with acc.
ReturnValue(helper, acc, count) ==
    CASE helper = "float average" -> F32Div(acc, F32FromInt(count))
      [] helper = "unsigned average" ->
            LET rest == (acc[1] % count) * TwoTo24 + acc[2]
            IN  << (acc[1] \div count) % 256, rest \div count >>
      [] OTHER -> acc

\* The accessor returns.
ReaderReturns(r, value) == [r EXCEPT !.pc = "done", !.result = value]

\* i++ and the loop's test; when the loop ends the helper returns. The
\* average divides by the count.
NextIteration(r, acc) ==
    LET helper == HelperOf(r.accessor)
    IN  IF r.i + 1 < r.count
        THEN [r EXCEPT !.pc = "loop", !.i = r.i + 1, !.acc = acc]
        ELSE IF IsAverage(helper) /\ r.count = 0
        THEN [r EXCEPT !.pc = "done", !.fault = "division by zero"]
        ELSE ReaderReturns([r EXCEPT !.acc = acc],
                           ReturnValue(helper, acc, r.count))

\* A read of data[r.i]: outside the buffer when r.i is no slot.
OutOfBuffer(r) == [r EXCEPT !.pc = "done", !.fault = "slot outside the buffer"]

\* Readings of the tick counter: a duration of 0, of 2667 and, the counter
\* having wrapped round, of 2^32 - 2667 ticks.
ReadTicks == { Word(0, 1000), Word(0, 3667) }

otherVars == << audioVars, driverVars, stepVars, cvVars, midiVars, codecVars >>

readerOnly ==
    << audioVars, driverVars, stepVars, cvVars, midiVars, perfVars, writer,
       codecVars >>

\* if (m_nValidSamples == 0) return 0;
ReadCheck ==
    /\ reader.pc = "idle"
    /\ \E accessor \in ReadAccessors :
          reader' = IF m_nValidSamples = 0
                    THEN ReaderReturns([reader EXCEPT !.accessor = accessor],
                                       ZeroOf(HelperOf(accessor)))
                    ELSE [reader EXCEPT !.pc = "count", !.accessor = accessor]
    /\ UNCHANGED readerOnly

\* return CalculateX (data, m_nValidSamples): the count is read for the
\* argument; the helper tests it and sets up its loop.
ReadCount ==
    /\ reader.pc = "count"
    /\ LET helper == HelperOf(reader.accessor)
           r == [reader EXCEPT !.count = m_nValidSamples, !.i = 0,
                               !.acc = ZeroOf(helper)]
       IN  reader' = IF r.count = 0 THEN ReaderReturns(r, ZeroOf(helper))
                     ELSE IF IsAverage(helper) THEN [r EXCEPT !.pc = "loop"]
                     ELSE [r EXCEPT !.pc = "first"]
    /\ UNCHANGED readerOnly

\* maxVal = data[0]; i = 1 and the loop's test
ReadFirst ==
    /\ reader.pc = "first"
    /\ reader' = IF reader.i >= m_nMaxSamples THEN OutOfBuffer(reader)
                 ELSE NextIteration(reader, DataOf(reader.accessor)[0])
    /\ UNCHANGED readerOnly

\* sum += data[i], or the test data[i] > maxVal
ReadLoop ==
    /\ reader.pc = "loop"
    /\ LET helper == HelperOf(reader.accessor)
           data == DataOf(reader.accessor)
       IN  reader' =
              IF reader.i >= m_nMaxSamples THEN OutOfBuffer(reader)
              ELSE IF IsAverage(helper)
              THEN NextIteration(reader, LoopBody(helper, reader.acc, data[reader.i]))
              ELSE IF Greater(helper, data[reader.i], reader.acc)
              THEN [reader EXCEPT !.pc = "assign"]
              ELSE NextIteration(reader, reader.acc)
    /\ UNCHANGED readerOnly

\* maxVal = data[i]: data[i] is read again
ReadAssign ==
    /\ reader.pc = "assign"
    /\ reader' = IF reader.i >= m_nMaxSamples THEN OutOfBuffer(reader)
                 ELSE NextIteration(reader, DataOf(reader.accessor)[reader.i])
    /\ UNCHANGED readerOnly

\* EndTiming(): EndTiming(m_nBufferSize); if (!m_bTimingActive) return;
\* What the accessors return at this point is kept.
WriteCheck ==
    /\ writer.pc = "idle"
    /\ writer' = [writer EXCEPT
                    !.pc = IF m_bTimingActive THEN "ticks" ELSE "done",
                    !.numSamplesProcessed = m_nBufferSize,
                    !.before = AccessorResults]
    /\ UNCHANGED << perfData, perfLog, perfHistory, reader, otherVars >>

\* m_nEndTicks = CTimer::GetClockTicks(); This store and the one to
\* m_bTimingActive lie between the same two barriers and are made in the
\* order the build has them: writer.pc is "ticks" before both, "inactive"
\* when m_bTimingActive is still to be stored and "ticksLast" when
\* m_nEndTicks is. After the second of them the three locals are computed.
WriteTicks ==
    /\ writer.pc \in { "ticks", "ticksLast" }
    /\ \E now \in ReadTicks :
          /\ m_nEndTicks' = now
          /\ clockTicks' = now
          /\ writer' = IF writer.pc = "ticks"
                       THEN [writer EXCEPT !.pc = "inactive"]
                       ELSE [writer EXCEPT
                               !.pc = "cycles",
                               !.sample = TimingSample(writer.numSamplesProcessed, now)]
    /\ UNCHANGED << m_nSampleRate, m_nBufferSize, m_nMaxSamples, m_nStartTicks,
                    m_bTimingActive, m_pClockCycles, m_pProcessingTimes,
                    m_pCPUUsages, m_nCurrentIndex, m_nValidSamples,
                    m_LastResult, perfLog, perfSamples, perfAppended, reader,
                    otherVars >>

\* m_bTimingActive = false; before or after the store to m_nEndTicks
WriteInactive ==
    /\ writer.pc \in { "ticks", "inactive" }
    /\ m_bTimingActive' = FALSE
    /\ writer' = IF writer.pc = "ticks"
                 THEN [writer EXCEPT !.pc = "ticksLast"]
                 ELSE [writer EXCEPT
                         !.pc = "cycles",
                         !.sample = TimingSample(writer.numSamplesProcessed, m_nEndTicks)]
    /\ UNCHANGED << m_nSampleRate, m_nBufferSize, m_nMaxSamples, m_nStartTicks,
                    m_nEndTicks, m_pClockCycles, m_pProcessingTimes,
                    m_pCPUUsages, m_nCurrentIndex, m_nValidSamples,
                    m_LastResult, perfLog, perfHistory, reader, otherVars >>

\* m_pClockCycles[m_nCurrentIndex] = clockCycles;
WriteCycles ==
    /\ writer.pc = "cycles"
    /\ m_pClockCycles' =
          [m_pClockCycles EXCEPT ![m_nCurrentIndex] = writer.sample.clockCycles]
    /\ writer' = [writer EXCEPT !.pc = "times"]
    /\ UNCHANGED << m_nSampleRate, m_nBufferSize, m_nMaxSamples, m_nStartTicks,
                    m_nEndTicks, m_bTimingActive, m_pProcessingTimes,
                    m_pCPUUsages, m_nCurrentIndex, m_nValidSamples,
                    m_LastResult, perfLog, perfHistory, reader, otherVars >>

\* m_pProcessingTimes[m_nCurrentIndex] = processingTimeUs;
WriteTimes ==
    /\ writer.pc = "times"
    /\ m_pProcessingTimes' =
          [m_pProcessingTimes EXCEPT
              ![m_nCurrentIndex] = writer.sample.processingTimeUs]
    /\ writer' = [writer EXCEPT !.pc = "usages"]
    /\ UNCHANGED << m_nSampleRate, m_nBufferSize, m_nMaxSamples, m_nStartTicks,
                    m_nEndTicks, m_bTimingActive, m_pClockCycles,
                    m_pCPUUsages, m_nCurrentIndex, m_nValidSamples,
                    m_LastResult, perfLog, perfHistory, reader, otherVars >>

\* m_pCPUUsages[m_nCurrentIndex] = cpuUsagePercent;
WriteUsages ==
    /\ writer.pc = "usages"
    /\ m_pCPUUsages' =
          [m_pCPUUsages EXCEPT ![m_nCurrentIndex] = writer.sample.cpuUsagePercent]
    /\ writer' = [writer EXCEPT !.pc = "last"]
    /\ UNCHANGED << m_nSampleRate, m_nBufferSize, m_nMaxSamples, m_nStartTicks,
                    m_nEndTicks, m_bTimingActive, m_pClockCycles,
                    m_pProcessingTimes, m_nCurrentIndex, m_nValidSamples,
                    m_LastResult, perfLog, perfHistory, reader, otherVars >>

\* m_LastResult.clockCycles = clockCycles; m_LastResult.processingTimeUs =
\* processingTimeUs; m_LastResult.cpuUsagePercent = cpuUsagePercent; one
\* store a step: clockCycles, then processingTimeUs, then cpuUsagePercent,
\* each in a store of its own or the last two in one, as the build has it.
\* No accessor of the statistics reads m_LastResult.
WriteLast ==
    /\ writer.pc \in { "last", "lastTime", "lastUsage" }
    /\ \E stored \in
            IF writer.pc = "last" THEN { { "clockCycles" } }
            ELSE IF writer.pc = "lastTime"
            THEN { { "processingTimeUs" },
                   { "processingTimeUs", "cpuUsagePercent" } }
            ELSE { { "cpuUsagePercent" } } :
          /\ m_LastResult' =
                [ member \in DOMAIN m_LastResult |->
                    IF member \in stored THEN writer.sample[member]
                    ELSE m_LastResult[member] ]
          /\ writer' = [writer EXCEPT
                          !.pc = IF "cpuUsagePercent" \in stored THEN "index"
                                 ELSE IF "processingTimeUs" \in stored
                                 THEN "lastUsage" ELSE "lastTime"]
    /\ UNCHANGED << m_nSampleRate, m_nBufferSize, m_nMaxSamples, m_nStartTicks,
                    m_nEndTicks, m_bTimingActive, m_pClockCycles,
                    m_pProcessingTimes, m_pCPUUsages, m_nCurrentIndex,
                    m_nValidSamples, perfLog, perfHistory, reader, otherVars >>

\* m_nCurrentIndex = (m_nCurrentIndex + 1) % m_nMaxSamples;
WriteIndex ==
    /\ writer.pc = "index"
    /\ m_nCurrentIndex' = (m_nCurrentIndex + 1) % m_nMaxSamples
    /\ writer' = [writer EXCEPT !.pc = "count"]
    /\ UNCHANGED << m_nSampleRate, m_nBufferSize, m_nMaxSamples, m_nStartTicks,
                    m_nEndTicks, m_bTimingActive, m_pClockCycles,
                    m_pProcessingTimes, m_pCPUUsages, m_nValidSamples,
                    m_LastResult, perfLog, perfHistory, reader, otherVars >>

\* if (m_nValidSamples < m_nMaxSamples) m_nValidSamples++; and the call
\* returns: the sample is in the history.
WriteCount ==
    /\ writer.pc = "count"
    /\ m_nValidSamples' = IF m_nValidSamples < m_nMaxSamples
                          THEN m_nValidSamples + 1 ELSE m_nValidSamples
    /\ writer' = [writer EXCEPT !.pc = "done"]
    /\ perfSamples' = Append(perfSamples,
                             [ n |-> writer.numSamplesProcessed,
                               rate |-> m_nSampleRate,
                               sample |-> writer.sample ])
    /\ perfAppended' = perfAppended + 1
    /\ UNCHANGED << m_nSampleRate, m_nBufferSize, m_nMaxSamples, m_nStartTicks,
                    m_nEndTicks, m_bTimingActive, m_pClockCycles,
                    m_pProcessingTimes, m_pCPUUsages, m_nCurrentIndex,
                    m_LastResult, perfLog, clockTicks, reader, otherVars >>

\* Before the two run side by side the real-time path times some periods,
\* each bracketed by StartTiming and EndTiming as CTimingScope does.
Quiet == reader.pc = "idle" /\ writer.pc = "idle"

PeriodStarts ==
    /\ Quiet /\ ~m_bTimingActive
    /\ Len(perfLog) < MaxReadCalls
    /\ \E now \in ReadTicks : StartTiming(now)
    /\ perfLog' = Append(perfLog, "start")
    /\ UNCHANGED << perfSamples, perfAppended, nonPerfVars >>

PeriodEnds ==
    /\ Quiet /\ m_bTimingActive
    /\ Len(perfLog) < MaxReadCalls
    /\ \E now \in ReadTicks : EndTiming(m_nBufferSize, now)
    /\ perfLog' = Append(perfLog, "end")
    /\ UNCHANGED nonPerfVars

NextRead ==
    \/ PeriodStarts \/ PeriodEnds
    \/ ReadCheck \/ ReadCount \/ ReadFirst \/ ReadLoop \/ ReadAssign
    \/ WriteCheck \/ WriteTicks \/ WriteInactive \/ WriteCycles
    \/ WriteTimes \/ WriteUsages \/ WriteLast \/ WriteIndex \/ WriteCount

SpecRead == InitPerfOnly /\ [][NextRead]_vars

----------------------------------------------------------------------------
(* CWM8960SoundController (wm8960soundcontroller.cpp) *)

\* Bitwise and, bitwise or of two naturals.
RECURSIVE BitAnd(_, _)
BitAnd(a, b) ==
    IF a = 0 \/ b = 0 THEN 0
    ELSE (a % 2) * (b % 2) + 2 * BitAnd(a \div 2, b \div 2)

RECURSIVE BitOr(_, _)
BitOr(a, b) ==
    IF a = 0 THEN b
    ELSE IF b = 0 THEN a
    ELSE (IF a % 2 = 1 \/ b % 2 = 1 THEN 1 ELSE 0) + 2 * BitOr(a \div 2, b \div 2)

\* Conversion of an int to u8.
U8(n) == n % 256

\* boolean WriteReg (u8 nReg, u16 nValue): the two command bytes go to the
\* bus and the result is whether the bus took both. `writes` are the
\* transfers the call has made before this one; `failAt` is the position in
\* the call of the transfer the bus does not complete, 0 when it completes
\* them all.
WriteReg(writes, failAt, nReg, nValue) ==
    Append(writes,
           [ nReg   |-> nReg,
             nValue |-> nValue,
             Cmd    |-> << U8(BitOr(nReg * 2, nValue \div 256)), U8(nValue) >>,
             ok     |-> Len(writes) + 1 # failAt ])

\* !WriteReg (...) of the transfer made last.
Failed(writes) == writes # << >> /\ ~writes[Len(writes)].ok

\* The writes of a chain all made, whether or not one of them fails.
RECURSIVE WriteChainGoesOn(_, _, _)
WriteChainGoesOn(writes, failAt, regs) ==
    IF regs = << >> THEN writes
    ELSE WriteChainGoesOn(WriteReg(writes, failAt, Head(regs)[1], Head(regs)[2]),
                          failAt, Tail(regs))

\* if (!WriteReg (r1, v1) || !WriteReg (r2, v2) || ...): the writes in turn
\* up to the first that fails.
RECURSIVE WriteChain(_, _, _)
WriteChain(writes, failAt, regs) ==
    IF regs = << >> THEN writes
    ELSE LET w == WriteReg(writes, failAt, Head(regs)[1], Head(regs)[2])
         IN  IF Failed(w) THEN w ELSE WriteChain(w, failAt, Tail(regs))

\* What a call leaves: the value returned, the transfers made, the cache.
Return(ret, writes, uchInVolume) ==
    [ ret |-> ret, writes |-> writes, m_uchInVolume |-> uchInVolume ]

\* Probe taking the else branch for no rate.
RateSupportedAny(nSampleRate) == TRUE

\* Probe's if (m_nSampleRate == 44100) ... else if (m_nSampleRate == 48000)
\* ... else return FALSE
RateSupported(nSampleRate) == nSampleRate = 44100 \/ nSampleRate = 48000

\* The clocking and PLL registers written for a rate.
PllWrites(nSampleRate) ==
    IF nSampleRate = 44100
    THEN << << 4, \h005 >>, << 52, \h037 >>, << 53, \h086 >>,
            << 54, \h0C2 >>, << 55, \h026 >> >>
    ELSE IF nSampleRate = 48000
    THEN << << 4, \h005 >>, << 52, \h038 >>, << 53, \h031 >>,
            << 54, \h026 >>, << 55, \h0E8 >> >>
    ELSE << >>

\* boolean CWM8960SoundController::Probe (void)
Probe(self, failAt) ==
    LET vol == self.m_uchInVolume
        reset == WriteChain(<< >>, failAt, << << 15, \h000 >> >>)
        power == WriteChain(reset, failAt,
                    << << 25, IF self.m_bInSupported THEN \h1FC ELSE \h1C0 >>,
                       << 26, IF self.m_bOutSupported THEN \h1F9 ELSE \h001 >>,
                       << 47, BitOr(IF self.m_bInSupported THEN \h030 ELSE \h000,
                                    IF self.m_bOutSupported THEN \h00C ELSE \h000) >> >>)
        clocking == WriteChain(power, failAt, PllWrites(self.m_nSampleRate))
        interface == WriteChain(clocking, failAt,
                        << << 5, \h000 >>, << 7, \h00A >>, << 20, \h0F9 >> >>)
        volumes == WriteChain(interface, failAt,
                      << << 2, \h179 >>, << 3, \h179 >>, << 40, \h179 >>,
                         << 41, \h179 >>, << 51, \h08D >>,
                         << 0, BitOr(\h100, vol[0]) >>,
                         << 1, BitOr(\h100, vol[1]) >> >>)
        paths == WriteChain(volumes, failAt,
                    << << 32, \h000 >>, << 33, \h000 >>, << 43, \h050 >>,
                       << 44, \h050 >>, << 49, \h0F7 >>, << 34, \h100 >>,
                       << 37, \h100 >> >>)
    IN  IF Failed(reset) THEN Return(FALSE, reset, vol)
        ELSE IF Failed(power) THEN Return(FALSE, power, vol)
        ELSE IF ~RateSupported(self.m_nSampleRate) THEN Return(FALSE, power, vol)
        ELSE IF Failed(clocking) THEN Return(FALSE, clocking, vol)
        ELSE IF Failed(interface) THEN Return(FALSE, interface, vol)
        ELSE IF Failed(volumes) THEN Return(FALSE, volumes, vol)
        ELSE IF Failed(paths) THEN Return(FALSE, paths, vol)
        ELSE Return(TRUE, paths, vol)

\* boolean CWM8960SoundController::EnableJack (TJack Jack)
EnableJack(self, Jack, failAt) ==
    LET vol == self.m_uchInVolume
    IN  CASE Jack = "JackSpeaker" ->
                LET w == WriteReg(<< >>, failAt, 49, \h0F7)
                IN  Return(~Failed(w), w, vol)
          [] Jack \in { "JackDefaultOut", "JackLineOut", "JackHeadphone",
                        "JackDefaultIn", "JackMicrophone" } ->
                Return(TRUE, << >>, vol)
          [] OTHER -> Return(FALSE, << >>, vol)

\* boolean CWM8960SoundController::DisableJack (TJack Jack)
DisableJack(self, Jack, failAt) ==
    LET vol == self.m_uchInVolume
    IN  IF Jack = "JackSpeaker"
        THEN LET w == WriteReg(<< >>, failAt, 49, \h037)
             IN  Return(~Failed(w), w, vol)
        ELSE Return(FALSE, << >>, vol)

\* CSoundController::IsInputJack, on the jacks the controller names.
IsInputJack(Jack) == Jack \in { "JackDefaultIn", "JackMicrophone" }

\* const TControlInfo CWM8960SoundController::GetControlInfo (TControl
\* Control, TJack Jack, TChannel Channel) const
GetControlInfo(Control, Jack, Channel) ==
    CASE Control = "ControlMute" /\ IsInputJack(Jack) ->
            [ Supported |-> TRUE, RangeMin |-> 0, RangeMax |-> 1 ]
      [] Control = "ControlVolume" /\ IsInputJack(Jack) ->
            [ Supported |-> TRUE, RangeMin |-> -17, RangeMax |-> 30 ]
      [] Control = "ControlVolume" /\ ~IsInputJack(Jack) ->
            [ Supported |-> TRUE, RangeMin |-> -73, RangeMax |-> 6 ]
      [] Control = "ControlALC" /\ IsInputJack(Jack) /\ Channel = "ChannelAll" ->
            [ Supported |-> TRUE, RangeMin |-> 0, RangeMax |-> 1 ]
      [] OTHER ->
            [ Supported |-> FALSE, RangeMin |-> 0, RangeMax |-> 0 ]

\* The mute flag taken as nValue << 7 in an int, not as 0x80 or 0x00.
WithMuteShifted(uchInVolume, nValue) ==
    BitAnd(uchInVolume, \h3F) + (IF nValue < 0 THEN -nValue ELSE nValue) * 128

\* m_uchInVolume[ch] &= 0x3F; m_uchInVolume[ch] |= nValue ? 0x80 : 0x00;
WithMute(uchInVolume, nValue) ==
    BitOr(BitAnd(uchInVolume, \h3F), IF nValue # 0 THEN \h80 ELSE \h00)

\* The volume code stored without the mute bit being kept.
WithVolumeDropsMute(uchInVolume, uchValue) == uchValue

\* m_uchInVolume[ch] &= 0x80; m_uchInVolume[ch] |= uchValue;
WithVolume(uchInVolume, uchValue) == BitOr(BitAnd(uchInVolume, \h80), uchValue)

\* u8 uchValue = (nValue + 17) * 100 / 75; (nValue + 17 is not negative
\* where this is reached)
InputVolumeCode(nValue) == U8(((nValue + 17) * 100) \div 75)

\* The output code taken from 0x2F.
OutputVolumeCodeLow(nValue) == U8(nValue + 73 + \h2F)

\* u8 uchValue = nValue + 73 + 0x30;
OutputVolumeCode(nValue) == U8(nValue + 73 + \h30)

\* boolean CWM8960SoundController::SetControl (TControl Control, TJack Jack,
\* TChannel Channel, int nValue)
SetControl(self, Control, Jack, Channel, nValue, failAt) ==
    LET vol == self.m_uchInVolume
        left == Channel = "ChannelLeft" \/ Channel = "ChannelAll"
        right == Channel = "ChannelRight" \/ Channel = "ChannelAll"
    IN  CASE Control = "ControlMute" /\ IsInputJack(Jack) ->
                LET v0 == IF left
                          THEN [vol EXCEPT ![0] = WithMute(vol[0], nValue)]
                          ELSE vol
                    w0 == IF left
                          THEN WriteReg(<< >>, failAt, 0, BitOr(\h100, v0[0]))
                          ELSE << >>
                    v1 == IF right
                          THEN [v0 EXCEPT ![1] = WithMute(v0[1], nValue)]
                          ELSE v0
                    w1 == IF right
                          THEN WriteReg(w0, failAt, 1, BitOr(\h100, v1[1]))
                          ELSE w0
                IN  IF Failed(w0) THEN Return(FALSE, w0, v0)
                    ELSE IF Failed(w1) THEN Return(FALSE, w1, v1)
                    ELSE Return(TRUE, w1, v1)
          [] Control = "ControlVolume" /\ IsInputJack(Jack) ->
                IF ~(-17 <= nValue /\ nValue <= 30)
                THEN Return(FALSE, << >>, vol)
                ELSE
                LET uchValue == InputVolumeCode(nValue)
                    v0 == IF left
                          THEN [vol EXCEPT ![0] = WithVolume(vol[0], uchValue)]
                          ELSE vol
                    w0 == IF left
                          THEN WriteReg(<< >>, failAt, 0, BitOr(\h100, v0[0]))
                          ELSE << >>
                    v1 == IF right
                          THEN [v0 EXCEPT ![1] = WithVolume(v0[1], uchValue)]
                          ELSE v0
                    w1 == IF right
                          THEN WriteReg(w0, failAt, 1, BitOr(\h100, v1[1]))
                          ELSE w0
                IN  IF Failed(w0) THEN Return(FALSE, w0, v0)
                    ELSE IF Failed(w1) THEN Return(FALSE, w1, v1)
                    ELSE Return(TRUE, w1, v1)
          [] Control = "ControlVolume" /\ ~IsInputJack(Jack) ->
                IF ~(-73 <= nValue /\ nValue <= 6)
                THEN Return(FALSE, << >>, vol)
                ELSE
                LET uchValue == OutputVolumeCode(nValue)
                    nRegL == IF Jack = "JackSpeaker" THEN 40 ELSE 2
                    w0 == IF left
                          THEN WriteReg(<< >>, failAt, nRegL, BitOr(\h100, uchValue))
                          ELSE << >>
                    w1 == IF right
                          THEN WriteReg(w0, failAt, nRegL + 1, BitOr(\h100, uchValue))
                          ELSE w0
                IN  IF Failed(w0) THEN Return(FALSE, w0, vol)
                    ELSE IF Failed(w1) THEN Return(FALSE, w1, vol)
                    ELSE Return(TRUE, w1, vol)
          [] Control = "ControlALC" /\ IsInputJack(Jack) /\ Channel = "ChannelAll" ->
                IF nValue # 0
                THEN LET v1 == [vol EXCEPT ![1] = vol[0]]
                         w1 == WriteReg(<< >>, failAt, 1, BitOr(\h100, v1[1]))
                         w2 == WriteReg(w1, failAt, 17, \h1FB)
                     IN  IF Failed(w1) THEN Return(FALSE, w1, v1)
                         ELSE Return(~Failed(w2), w2, v1)
                ELSE LET w == WriteReg(<< >>, failAt, 17, \h00B)
                     IN  Return(~Failed(w), w, vol)
          [] OTHER -> Return(FALSE, << >>, vol)

\* The controller's users: what they construct it with and pass to it.
CodecConfigs ==
    { << 44100, TRUE, TRUE >>, << 48000, TRUE, FALSE >>,
      << 48000, FALSE, TRUE >>, << 8000, TRUE, TRUE >>,
      << 96000, TRUE, TRUE >> }
Jacks == { "JackDefaultOut", "JackLineOut", "JackSpeaker", "JackHeadphone",
           "JackDefaultIn", "JackMicrophone" }
ControlJacks == { "JackHeadphone", "JackSpeaker", "JackMicrophone" }
SwitchJacks == { "JackSpeaker", "JackMicrophone" }
Channels == { "ChannelAll", "ChannelLeft", "ChannelRight" }
\* A control, a jack and a value: for a volume the values at and next to
\* the ends of the jack's range and 0 dB (on the headphone the two ends
\* only), for the mute 0, 1 and a value
\* that is neither, for the ALC switch 0 and 1; the two switches on the
\* microphone and on one jack that has none.
ControlCalls ==
    ({ "ControlMute" } \X SwitchJacks \X { 0, 1, 2 })
    \cup ({ "ControlVolume" } \X { j \in ControlJacks : IsInputJack(j) }
            \X { -18, -17, 0, 30, 31 })
    \cup ({ "ControlVolume" } \X { "JackSpeaker" } \X { -74, -73, 0, 6, 7 })
    \cup ({ "ControlVolume" } \X { "JackHeadphone" } \X { -73, 6 })
    \cup ({ "ControlALC" } \X SwitchJacks \X { 0, 1 })

nonCodecVars == << audioVars, driverVars, stepVars, cvVars, midiVars, perfVars,
                   readVars >>

\* R0 and R1 after the transfers of a call: a transfer that completed has
\* put its value in the register it addresses.
RECURSIVE WrittenAfter(_, _)
WrittenAfter(regs, writes) ==
    IF writes = << >> THEN regs
    ELSE LET w == Head(writes)
         IN  WrittenAfter(IF w.ok /\ w.nReg \in DOMAIN regs
                          THEN [regs EXCEPT ![w.nReg] = w.nValue]
                          ELSE regs,
                          Tail(writes))

\* A call returns r: the cache is as the call left it.
CodecReturns(op, Control, Jack, Channel, nValue, r) ==
    /\ wm8960' = [wm8960 EXCEPT !.m_uchInVolume = r.m_uchInVolume]
    /\ i2cWrites' = r.writes
    /\ codecCall' = [ op |-> op, Control |-> Control, Jack |-> Jack,
                      Channel |-> Channel, nValue |-> nValue, ret |-> r.ret,
                      m_uchInVolume |-> wm8960.m_uchInVolume,
                      written |-> written ]
    /\ codecCalls' = codecCalls + 1
    /\ written' = WrittenAfter(written, r.writes)
    /\ probed' = CASE op = "Probe" -> r.ret
                    [] op = "SetControl" -> probed
                    [] OTHER -> FALSE
    /\ UNCHANGED nonCodecVars

\* Each call is made with every transfer completing and with each one of
\* its transfers failing.
DoProbe ==
    /\ codecCalls < MaxCodecCalls
    /\ \E failAt \in 0 .. Len(Probe(wm8960, 0).writes) :
          CodecReturns("Probe", "none", "none", "none", 0, Probe(wm8960, failAt))

DoEnableJack ==
    /\ codecCalls < MaxCodecCalls
    /\ \E Jack \in ControlJacks :
       \E failAt \in 0 .. Len(EnableJack(wm8960, Jack, 0).writes) :
          CodecReturns("EnableJack", "none", Jack, "none", 0,
                       EnableJack(wm8960, Jack, failAt))

DoDisableJack ==
    /\ codecCalls < MaxCodecCalls
    /\ \E Jack \in ControlJacks :
       \E failAt \in 0 .. Len(DisableJack(wm8960, Jack, 0).writes) :
          CodecReturns("DisableJack", "none", Jack, "none", 0,
                       DisableJack(wm8960, Jack, failAt))

DoSetControl ==
    /\ codecCalls < MaxCodecCalls
    /\ \E call \in ControlCalls, Channel \in Channels :
       \E failAt \in 0 .. Len(SetControl(wm8960, call[1], call[2], Channel, call[3], 0).writes) :
          CodecReturns("SetControl", call[1], call[2], Channel, call[3],
                       SetControl(wm8960, call[1], call[2], Channel, call[3], failAt))

InitCodecOnly ==
    /\ InitAudio /\ InitDriver /\ InitSteps /\ IdleConverter /\ InitMidi
    /\ InitPerf /\ InitReader
    /\ MidiZeroed
    /\ aCircleFaustDSP = "dsp" /\ inputLeft = outputLeft
    /\ inputLeft = [i \in 0 .. NUM_FRAMES - 1 |-> F32Zero(0)]
    /\ \E config \in CodecConfigs :
          wm8960 = Constructed(config[1], config[2], config[3])
    /\ i2cWrites = << >>
    /\ codecCall = NoCall
    /\ codecCalls = 0
    /\ written = [ch \in 0 .. 1 |-> -1]
    /\ probed = FALSE

NextCodec == DoProbe \/ DoEnableJack \/ DoDisableJack \/ DoSetControl

SpecCodec == InitCodecOnly /\ [][NextCodec]_vars

----------------------------------------------------------------------------
(* Exact arithmetic for the properties: naturals as sequences of base-4096
   digits, least significant first *)

RECURSIVE BigOf(_)
BigOf(n) == IF n = 0 THEN << >> ELSE << n % 4096 >> \o BigOf(n \div 4096)

RECURSIVE BigTrim(_)
BigTrim(a) ==
    IF a = << >> THEN a
    ELSE IF a[Len(a)] = 0 THEN BigTrim(SubSeq(a, 1, Len(a) - 1)) ELSE a

Digit(a, i) == IF i <= Len(a) THEN a[i] ELSE 0

RECURSIVE BigAddFrom(_, _, _, _)
BigAddFrom(a, b, i, carry) ==
    IF i > Len(a) /\ i > Len(b)
    THEN (IF carry = 0 THEN << >> ELSE << carry >>)
    ELSE LET t == Digit(a, i) + Digit(b, i) + carry
         IN  << t % 4096 >> \o BigAddFrom(a, b, i + 1, t \div 4096)
BigAdd(a, b) == BigTrim(BigAddFrom(a, b, 1, 0))

\* a - b for a >= b
RECURSIVE BigSubFrom(_, _, _, _)
BigSubFrom(a, b, i, borrow) ==
    IF i > Len(a) THEN << >>
    ELSE LET t == Digit(a, i) - Digit(b, i) - borrow
         IN  IF t < 0 THEN << t + 4096 >> \o BigSubFrom(a, b, i + 1, 1)
             ELSE << t >> \o BigSubFrom(a, b, i + 1, 0)
BigSub(a, b) == BigTrim(BigSubFrom(a, b, 1, 0))

\* a < b on trimmed numbers
RECURSIVE BigLessFrom(_, _, _)
BigLessFrom(a, b, i) ==
    IF i = 0 THEN FALSE
    ELSE IF a[i] # b[i] THEN a[i] < b[i]
    ELSE BigLessFrom(a, b, i - 1)
BigLess(a, b) ==
    IF Len(a) # Len(b) THEN Len(a) < Len(b) ELSE BigLessFrom(a, b, Len(a))

RECURSIVE BigTimesFrom(_, _, _, _)
BigTimesFrom(a, c, i, carry) ==
    IF i > Len(a) THEN (IF carry = 0 THEN << >> ELSE << carry >>)
    ELSE LET t == a[i] * c + carry
         IN  << t % 4096 >> \o BigTimesFrom(a, c, i + 1, t \div 4096)

\* a * 2^k
BigShl(a, k) ==
    BigTrim([i \in 1 .. k \div 12 |-> 0] \o BigTimesFrom(a, Pow2(k % 12), 1, 0))

\* |x - y| * (2^23 - 1) <= 1 for finite floats x, y: they differ by at most
\* one quantization step 1/8388607.
WithinOneStep(x, y) ==
    LET e0 == IF x.exp <= y.exp THEN x.exp ELSE y.exp
        X  == BigShl(BigOf(x.man), x.exp - e0)
        Y  == BigShl(BigOf(y.man), y.exp - e0)
        D  == IF x.sign # y.sign THEN BigAdd(X, Y)
              ELSE IF BigLess(X, Y) THEN BigSub(Y, X) ELSE BigSub(X, Y)
        S  == BigSub(BigShl(D, 23), D)
    IN  ~BigLess(BigShl(<< 1 >>, -e0), S)

----------------------------------------------------------------------------
(* Properties of the sample exchange *)

LastCall == IF calls = << >> THEN "none" ELSE calls[Len(calls)]
IsSized(c) == c \in {"put", "get"}
SizedCalls == SelectSeq(calls, IsSized)
HasMismatch == \E k \in 1 .. Len(calls) : calls[k] \in {"badput", "badget"}
Alternating ==
    \A k \in 1 .. Len(calls) : calls[k] = IF k % 2 = 1 THEN "put" ELSE "get"
Returned(kinds) ==
    /\ Len(calls') = Len(calls) + 1
    /\ calls'[Len(calls')] \in kinds
Processed(block) == [i \in 0 .. AUDIO_BLOCK_SIZE - 1 |-> Attenuate(block[i])]

\* C1: while correctly sized PutChunk and GetChunk calls alternate, put first,
\* each GetChunk reads and processes exactly the block its period's PutChunk
\* delivered, not the block of another period.
C1_NonAliasing ==
    (Alternating /\ LastCall = "get") =>
        (readBlock = lastPut /\ pBuffer = Processed(lastPut))

\* Two periods have passed with different blocks, the first left in region A,
\* the second in region B and read back.
C1_Witness ==
    /\ Alternating /\ Len(calls) = 4
    /\ inputBuffer_A # inputBuffer_B
    /\ inputBuffer_B = lastPut
    /\ readBlock = lastPut

\* C2: with PutChunk and GetChunk in two contexts, PutChunk is never in the
\* middle of writing the input region that GetChunk is in the middle of reading.
C2_NoSharedRegion ==
    ~ ( /\ pcPut = "copy" /\ putCopied # 0 .. putSize - 1
        /\ pcGet = "loop" /\ iGet < getSize
        /\ putRegion = getRegion /\ putRegion = ReadRegion )

GetsReturned == Len(SelectSeq(calls, LAMBDA c : c = "get"))

\* C3: useBufferA changes only in a correctly sized GetChunk, in the one step
\* after its loop has written the whole output block, never in PutChunk; so
\* between GetChunk calls it is TRUE exactly when an even number of correctly
\* sized GetChunk calls have returned.
C3_SelectorFlips ==
    /\ [][ useBufferA' # useBufferA =>
             /\ pcGet = "loop" /\ pcGet' = "pointers"
             /\ getSize = AUDIO_BLOCK_SIZE /\ iGet = AUDIO_BLOCK_SIZE
             /\ pBuffer = Processed(readBlock)
             /\ UNCHANGED << pcPut, putCopied >> ]_vars
    /\ [](pcGet = "idle" => (useBufferA <=> GetsReturned % 2 = 0))

\* Two correctly sized GetChunk calls and a PutChunk have returned and the
\* selector is back at region A.
C3_Witness ==
    /\ pcGet = "idle" /\ pcPut = "idle"
    /\ GetsReturned = 2 /\ useBufferA
    /\ \E k \in 1 .. Len(calls) : calls[k] = "put"

\* C4: a PutChunk call with a length other than the block length changes
\* neither storage region, no float buffer, no buffer pointer, and not the
\* selector (nor anything of the output side).
C4_BadPutIsNoOp ==
    [][ Returned({"put", "badput"}) /\ lastSize' # AUDIO_BLOCK_SIZE =>
          UNCHANGED << audioVars, pBuffer, getResult, readBlock >> ]_vars

\* A wrongly sized PutChunk has returned after a block was stored and the
\* selector had moved to region B.
C4_Witness ==
    /\ LastCall = "badput"
    /\ lastSize # AUDIO_BLOCK_SIZE
    /\ inputBuffer_A = lastPut /\ lastPut # ZeroBlock
    /\ ~useBufferA

\* C5: GetChunk returns the block length for a request of the block length
\* and 0 for any other; returning 0 it has written nothing to the caller's
\* block, read and processed nothing, and left selector and pointers alone.
C5_GetResult ==
    [][ Returned({"get", "badget"}) =>
          IF lastSize' = AUDIO_BLOCK_SIZE
          THEN getResult' = AUDIO_BLOCK_SIZE
          ELSE /\ getResult' = 0
               /\ pBuffer' = FreshBlock(lastSize')
               /\ UNCHANGED << readBlock, audioVars >> ]_vars

\* A wrongly sized GetChunk has returned 0 after a correctly sized one had
\* returned a processed block.
C5_Witness ==
    /\ LastCall = "badget" /\ getResult = 0
    /\ lastSize # AUDIO_BLOCK_SIZE
    /\ ~useBufferA
    /\ readBlock = lastPut /\ lastPut # ZeroBlock

\* C6: after a correctly sized PutChunk the block is in the selected input
\* region and the input float buffers hold its deinterleaved conversion.
C6_InputConverted ==
    LastCall = "put" =>
        /\ InputRegion(SelectedRegion) = lastPut
        /\ inputLeft = convertInputToFloat(lastPut).left
        /\ inputRight = convertInputToFloat(lastPut).right

\* C7: with no engine bound, a correctly sized GetChunk after the period's
\* PutChunk leaves the output float buffers equal to the input float buffers
\* and hands back the sample values of the accepted block.
C7_PassThrough ==
    (aCircleFaustDSP = "null" /\ LastCall = "get" /\ Len(calls) >= 2
        /\ calls[Len(calls) - 1] = "put") =>
        /\ outputLeft = inputLeft
        /\ outputRight = inputRight
        /\ \A i \in 0 .. AUDIO_BLOCK_SIZE - 1 :
              u32_to_s24(pBuffer[i]) = u32_to_s24(lastPut[i])

\* C8: whatever wrongly sized calls came before or in between, a correctly
\* sized GetChunk whose latest correctly sized predecessor is a PutChunk(b)
\* returns the block length and reads and processes exactly b.
C8_Recovers ==
    (HasMismatch /\ LastCall = "get" /\ Len(SizedCalls) >= 2
        /\ SizedCalls[Len(SizedCalls) - 1] = "put") =>
        /\ getResult = AUDIO_BLOCK_SIZE
        /\ readBlock = lastPut
        /\ pBuffer = Processed(lastPut)

\* Wrongly sized calls of both handlers, one of them between the PutChunk and
\* its GetChunk, and the block came through.
C8_Witness ==
    /\ Len(calls) = 4
    /\ calls[1] = "badget" /\ calls[2] = "put"
    /\ calls[3] = "badput" /\ calls[4] = "get"
    /\ getResult = AUDIO_BLOCK_SIZE
    /\ readBlock = lastPut /\ lastPut # ZeroBlock

----------------------------------------------------------------------------
(* Properties of the format converter *)

AboveOne(x) == F32Less(F32One, x)
BelowMinusOne(x) == F32Less(x, F32MinusOne)
InClampRange(x) == x.cls = "fin" /\ ~AboveOne(x) /\ ~BelowMinusOne(x)

\* C9: every input above 1.0 yields the maximum code +8388607 (0x7FFFFF)
\* and every input below -1.0 the minimum code -8388608 (0x800000), never a
\* code of the opposite sign.
C9_SaturationToMinCode ==
    cvPc # "float" =>
        /\ AboveOne(cvIn) => cvCode = Word(0, 8388607)
        /\ BelowMinusOne(cvIn) => cvCode = Word(0, 8388608)

\* C10: for every float f with -1.0 <= f <= 1.0, the float that
\* convertInputToFloat's conversion gives for the code that
\* convertFloatToOutput's conversion gives for f differs from f by at most
\* 1/8388607.
C10_RoundTrip ==
    (cvPc = "back" /\ InClampRange(cvIn)) => WithinOneStep(cvBack, cvIn)

\* A negative float in range came back changed: the truncation was not exact.
C10_Witness ==
    /\ cvPc = "back" /\ InClampRange(cvIn)
    /\ cvIn.sign = 1 /\ cvCode # ZeroWord
    /\ cvBack # cvIn

\* C11 as claimed: for every raw word w, ToFloat(w) depends only on the low 24
\* bits, read as a two's-complement integer s in [-8388608, 8388607], and the
\* result r satisfies -1.0 <= r < 1.0; 0x800000 does not map below -1.0.
C11_ToFloatRange ==
    cvPc = "back" =>
        /\ cvBack = ToFloat(Word(0, cvCode[2]))
        /\ u32_to_s24(cvCode) \in -8388608 .. 8388607
        /\ u32_to_s24(cvCode) % TwoTo24 = cvCode[2]
        /\ ~F32Less(cvBack, F32MinusOne)
        /\ F32Less(cvBack, F32One)

----------------------------------------------------------------------------
(* Properties of the MIDI normalizer, read off the trace of inputs *)

IsByte(i) == midiTrace[i].kind = "byte"
IsPacket(i) == midiTrace[i].kind = "packet"
ByteAt(i) == midiTrace[i].data
\* The parser state and the numbers of events and of normalized messages
\* after the i-th input.
StateAfter(i) ==
    IF i = Len(midiTrace) THEN m_nSerialState ELSE midiTrace[i + 1].state
EventsAfter(i) ==
    IF i = Len(midiTrace) THEN Len(events) ELSE midiTrace[i + 1].events
NormAfter(i) ==
    IF i = Len(midiTrace) THEN normCalls ELSE midiTrace[i + 1].norm

\* Status bytes 0x80-0x9F (Note Off, Note On) and 0xB0-0xBF (Control Change).
IsAcceptedStatus(b) == b \in (128 .. 159) \cup (176 .. 191)
IsData(b) == b \in 0 .. 127

\* The event a message of an accepted class stands for.
ClaimedEvent(s, d1, d2) ==
    [ type |-> IF s \in 144 .. 159 THEN (IF d2 = 0 THEN "NoteOff" ELSE "NoteOn")
               ELSE IF s \in 128 .. 143 THEN "NoteOff"
               ELSE "ControlChange",
      channel |-> s % 16, data1 |-> d1, data2 |-> d2 ]

\* Inputs i, i+1, i+2 are bytes: a status byte of an accepted class and two
\* data bytes.
MessageAt(i) ==
    /\ i + 2 <= Len(midiTrace)
    /\ IsByte(i) /\ IsByte(i + 1) /\ IsByte(i + 2)
    /\ IsAcceptedStatus(ByteAt(i))
    /\ IsData(ByteAt(i + 1)) /\ IsData(ByteAt(i + 2))

BytesOf(t) == [i \in 1 .. Len(t) |-> t[i].data]
AllBytes == \A i \in 1 .. Len(midiTrace) : IsByte(i)

\* C12: from Idle, the bytes [s, d1, d2] with s of an accepted class and d1,
\* d2 data bytes dispatch exactly one event, {type of s (Note On of velocity 0
\* as Note Off), channel s & 0x0F, d1, d2}; nothing is dispatched on s or on
\* d1, the event is dispatched on d2, and the parser is Idle afterwards.
C12_Completeness ==
    \A i \in 1 .. Len(midiTrace) :
        (MessageAt(i) /\ midiTrace[i].state = 0) =>
            /\ EventsAfter(i) = midiTrace[i].events
            /\ EventsAfter(i + 1) = midiTrace[i].events
            /\ EventsAfter(i + 2) = midiTrace[i].events + 1
            /\ events[midiTrace[i].events + 1] =
                   ClaimedEvent(ByteAt(i), ByteAt(i + 1), ByteAt(i + 2))
            /\ StateAfter(i + 2) = 0

\* [0x90, 0x3C, 0x64] has been fed and given Note On, channel 0, key 60,
\* velocity 100.
C12_Witness ==
    /\ Len(midiTrace) = 3 /\ AllBytes
    /\ BytesOf(midiTrace) = << 144, 60, 100 >>
    /\ events = << [ type |-> "NoteOn", channel |-> 0, data1 |-> 60,
                     data2 |-> 100 ] >>
    /\ m_nSerialState = 0

\* C13: a byte with the status bit set received in ExpectData1 or ExpectData2
\* dispatches nothing and is taken as a fresh status byte: of an accepted
\* class it leaves the parser in ExpectData1 with that byte staged, otherwise
\* in Idle; so [0x90, 0x80, 0x3C, 0x64] gives exactly one event, Note Off,
\* channel 0, key 60.
C13_Resync ==
    /\ \A i \in 1 .. Len(midiTrace) :
          (IsByte(i) /\ midiTrace[i].state \in { 1, 2 } /\ ByteAt(i) >= 128) =>
              /\ EventsAfter(i) = midiTrace[i].events
              /\ StateAfter(i) = IF IsAcceptedStatus(ByteAt(i)) THEN 1 ELSE 0
              /\ (i = Len(midiTrace) /\ IsAcceptedStatus(ByteAt(i))) =>
                     m_SerialMessage[1] = ByteAt(i)
    /\ (AllBytes /\ BytesOf(midiTrace) = << 144, 128, 60, 100 >>) =>
           events = << [ type |-> "NoteOff", channel |-> 0, data1 |-> 60,
                         data2 |-> 100 ] >>

\* [0x90, 0x80, 0x3C, 0x64] has been fed and the parser is Idle again.
C13_Witness ==
    /\ Len(midiTrace) = 4 /\ AllBytes
    /\ BytesOf(midiTrace) = << 144, 128, 60, 100 >>
    /\ midiTrace[2].state = 1
    /\ Len(events) = 1
    /\ m_nSerialState = 0

\* C14: whatever was received before, the bytes [s, d1, d2] with s of an
\* accepted class and d1, d2 data bytes dispatch the event of [s, d1, d2] when
\* d2 is received.
C14_NoLoss ==
    \A i \in 1 .. Len(midiTrace) :
        MessageAt(i) =>
            /\ EventsAfter(i + 2) = midiTrace[i + 2].events + 1
            /\ events[EventsAfter(i + 2)] =
                   ClaimedEvent(ByteAt(i), ByteAt(i + 1), ByteAt(i + 2))

\* A message came through though it began while the parser was waiting for
\* the second data byte of another.
C14_Witness ==
    /\ Len(midiTrace) = 5 /\ AllBytes
    /\ midiTrace[3].state = 2
    /\ MessageAt(3)
    /\ Len(events) = 1

\* C15: a message with status high nibble 0x9 is dispatched as Note Off if its
\* second data byte is 0 and as Note On otherwise, with the channel of the
\* status byte and the same first data byte, whether it came as a packet or
\* byte by byte.
C15_ZeroVelocity ==
    /\ \A i \in 1 .. Len(midiTrace) :
          (IsPacket(i) /\ Len(ByteAt(i)) >= 3 /\ ByteAt(i)[1] \in 144 .. 159) =>
              /\ EventsAfter(i) = midiTrace[i].events + 1
              /\ events[EventsAfter(i)] =
                     [ type |-> IF ByteAt(i)[3] = 0 THEN "NoteOff" ELSE "NoteOn",
                       channel |-> ByteAt(i)[1] % 16,
                       data1 |-> ByteAt(i)[2], data2 |-> ByteAt(i)[3] ]
    /\ \A i \in 1 .. Len(midiTrace) :
          (MessageAt(i) /\ ByteAt(i) \in 144 .. 159) =>
              /\ EventsAfter(i + 2) = midiTrace[i + 2].events + 1
              /\ events[EventsAfter(i + 2)] =
                     [ type |-> IF ByteAt(i + 2) = 0 THEN "NoteOff" ELSE "NoteOn",
                       channel |-> ByteAt(i) % 16,
                       data1 |-> ByteAt(i + 1), data2 |-> ByteAt(i + 2) ]

\* A Note On of velocity 0 has come on each path and both were dispatched as
\* Note Off.
C15_Witness ==
    /\ Len(midiTrace) = 4
    /\ IsPacket(1) /\ ByteAt(1) = << 145, 64, 0 >>
    /\ MessageAt(2) /\ ByteAt(2) = 144 /\ ByteAt(4) = 0
    /\ Len(events) = 2
    /\ events[1].type = "NoteOff" /\ events[2].type = "NoteOff"

\* C16: in Idle a data byte or a status byte of a class other than Note On,
\* Note Off and Control Change dispatches nothing and leaves the parser in
\* Idle.
C16_IdleIgnores ==
    \A i \in 1 .. Len(midiTrace) :
        (IsByte(i) /\ midiTrace[i].state = 0 /\ ~IsAcceptedStatus(ByteAt(i))) =>
            /\ EventsAfter(i) = midiTrace[i].events
            /\ StateAfter(i) = 0

\* Two data bytes after a complete message and a Program Change status byte
\* were received in Idle and gave nothing.
C16_Witness ==
    /\ Len(midiTrace) = 5 /\ AllBytes
    /\ BytesOf(midiTrace) = << 144, 60, 100, 60, 192 >>
    /\ Len(events) = 1
    /\ m_nSerialState = 0

NormalizerState ==
    << m_nSerialState, m_SerialMessage, m_pMIDIDevice, m_nMidiType,
       m_nMidiChannel, m_nMidiData1, m_nMidiData2, events, normCalls,
       registered >>

\* A step that delivers a packet.
PacketStep ==
    /\ Len(midiTrace') = Len(midiTrace) + 1
    /\ midiTrace'[Len(midiTrace')].kind = "packet"

\* C17: a packet of fewer than three bytes dispatches no event and changes
\* nothing of the normalizer; a packet of three bytes or more goes to the
\* common normalization exactly once.
C17_ShortPackets ==
    [][ PacketStep =>
          IF Len(midiTrace'[Len(midiTrace')].data) < 3
          THEN UNCHANGED NormalizerState
          ELSE normCalls' = normCalls + 1 ]_vars

\* A packet of two bytes and one of three have been delivered; one message
\* was normalized.
C17_Witness ==
    /\ Len(midiTrace) = 2
    /\ IsPacket(1) /\ Len(ByteAt(1)) = 2
    /\ IsPacket(2) /\ Len(ByteAt(2)) = 3
    /\ normCalls = 1

\* The normalizer is bound: m_pMIDIDevice is one of the devices attached.
Bound == m_pMIDIDevice \in devicePresent

\* C18: the normalizer is unbound (m_pMIDIDevice null) or bound to a device
\* attached; a device is bound only by a ProcessMidi call whose
\* topology-changed flag is set, with no device bound and a MIDI device
\* present, and it is one of the devices present; while a device is bound no
\* other takes its place; the removal of the bound device leaves none bound;
\* and whenever the normalizer is not bound, a MIDI device is present and the
\* topology change is pending, a device gets bound unless all devices are
\* removed first (attach, detach, re-attach ends bound).
C18_Binding ==
    /\ [][ (~Bound /\ Bound') =>
              /\ plugAndPlayUpdated /\ ~plugAndPlayUpdated'
              /\ m_pMIDIDevice = 0 ]_vars
    /\ [][ Bound => m_pMIDIDevice' \in { m_pMIDIDevice, 0 } ]_vars
    /\ [][ (Bound /\ m_pMIDIDevice \notin devicePresent') => m_pMIDIDevice' = 0 ]_vars
    /\ [](m_pMIDIDevice = 0 \/ Bound)
    /\ ((~Bound /\ devicePresent # { } /\ plugAndPlayUpdated)
           ~> (Bound \/ devicePresent = { }))

----------------------------------------------------------------------------
(* Properties of the performance monitor *)

StatisticsState ==
    << m_pClockCycles, m_pProcessingTimes, m_pCPUUsages, m_nCurrentIndex,
       m_nValidSamples, m_LastResult >>

\* C19: EndTiming called with no timing open (never started, or closed by an
\* earlier EndTiming) changes neither the circular buffer nor the running
\* index, the count of valid samples or the last result.
C19_EndWithoutStart ==
    [][ (perfLog' = Append(perfLog, "end") /\ ~m_bTimingActive) =>
            UNCHANGED StatisticsState ]_vars

\* A timing was closed and EndTiming called once more; the one sample is
\* still there.
C19_Witness ==
    /\ perfLog = << "start", "end", "end" >>
    /\ m_nValidSamples = 1
    /\ m_nCurrentIndex = 1
    /\ m_LastResult.clockCycles # ZeroWord

\* C20: over StartTiming and EndTiming calls the count of valid samples never
\* decreases; an EndTiming that stores a sample raises it by one while it is
\* below the capacity and leaves it at the capacity otherwise; no other call
\* changes it; it never exceeds the capacity.
C20_ValidSamples ==
    /\ [][ (perfLog' = Append(perfLog, "end") /\ m_bTimingActive) =>
              m_nValidSamples' = IF m_nValidSamples < m_nMaxSamples
                                 THEN m_nValidSamples + 1
                                 ELSE m_nMaxSamples ]_vars
    /\ [][ \/ perfLog' = Append(perfLog, "start")
           \/ (perfLog' = Append(perfLog, "end") /\ ~m_bTimingActive)
           => m_nValidSamples' = m_nValidSamples ]_vars
    /\ [][ perfLog' \in { Append(perfLog, "start"), Append(perfLog, "end") } =>
              m_nValidSamples' >= m_nValidSamples ]_vars
    /\ [](m_nValidSamples <= m_nMaxSamples)

\* One sample more than the capacity has been stored: the count stayed at the
\* capacity.
C20_Witness ==
    /\ Len(perfLog) = 2 * (m_nMaxSamples + 1)
    /\ \A i \in 1 .. Len(perfLog) :
          perfLog[i] = IF i % 2 = 1 THEN "start" ELSE "end"
    /\ m_nValidSamples = m_nMaxSamples

\* An unsigned 32-bit value as an exact natural.
BigOfWord(w) == BigTrim(<< w[2] % 4096, w[2] \div 4096, w[1] >>)

\* The samples the buffer can still hold: the last `capacity` of those stored
\* since construction or the last ResetStatistics, oldest first.
RecentSamples ==
    LET k == Len(perfSamples)
        n == IF k < m_nMaxSamples THEN k ELSE m_nMaxSamples
    IN  [i \in 1 .. n |-> perfSamples[k - n + i].sample]

RECURSIVE BigSum(_)
BigSum(words) ==
    IF words = << >> THEN << >>
    ELSE BigAdd(BigOfWord(Head(words)), BigSum(Tail(words)))

\* The floats of a sequence added one after the other, starting from 0.0f.
RECURSIVE F32Sum(_)
F32Sum(xs) ==
    IF xs = << >> THEN F32Zero(0)
    ELSE F32Add(F32Sum(SubSeq(xs, 1, Len(xs) - 1)), xs[Len(xs)])

Orders(n) == { p \in [1 .. n -> 1 .. n] : \A i, j \in 1 .. n : p[i] = p[j] => i = j }

\* q is the whole part of the mean of the words.
IsMeanOfWords(q, words) ==
    LET total == BigSum(words)
        Q     == BigOfWord(q)
    IN  /\ ~BigLess(total, BigTrim(BigTimesFrom(Q, Len(words), 1, 0)))
        /\ BigLess(total, BigTrim(BigTimesFrom(BigAdd(Q, << 1 >>), Len(words), 1, 0)))

\* x is the binary32 mean of the floats: their sum, taken in some order,
\* divided by their number.
IsMeanOfFloats(x, xs) ==
    \E p \in Orders(Len(xs)) :
        x = F32Div(F32Sum([i \in 1 .. Len(xs) |-> xs[p[i]]]), F32FromInt(Len(xs)))

\* v is the greatest of the values under the order given.
IsGreatest(v, values, Less(_, _)) ==
    /\ \E i \in 1 .. Len(values) : values[i] = v
    /\ \A i \in 1 .. Len(values) : ~Less(v, values[i])

NoStatistics ==
    [ avgCPU |-> F32Zero(0), maxCPU |-> F32Zero(0), avgCycles |-> ZeroWord,
      maxCycles |-> ZeroWord, avgTime |-> F32Zero(0), maxTime |-> F32Zero(0) ]

\* res is what the accessors are to return over the samples given: the mean
\* and the greatest of each of the three quantities, 0 when there is none.
IsStatisticsOf(res, samples) ==
    LET cycles == [i \in 1 .. Len(samples) |-> samples[i].clockCycles]
        times  == [i \in 1 .. Len(samples) |-> samples[i].processingTimeUs]
        usages == [i \in 1 .. Len(samples) |-> samples[i].cpuUsagePercent]
    IN  IF samples = << >> THEN res = NoStatistics
        ELSE /\ IsMeanOfWords(res.avgCycles, cycles)
             /\ IsGreatest(res.maxCycles, cycles, U32Less)
             /\ IsMeanOfFloats(res.avgTime, times)
             /\ IsGreatest(res.maxTime, times, F32Less)
             /\ IsMeanOfFloats(res.avgCPU, usages)
             /\ IsGreatest(res.maxCPU, usages, F32Less)

\* C21: once more samples than the capacity have been stored, the count of
\* valid samples is the capacity and the six accessors return the means and
\* the maxima of the most recent `capacity` samples, whatever the samples
\* stored before them were.
C21_OverwriteOldest ==
    Len(perfSamples) > m_nMaxSamples =>
        /\ m_nValidSamples = m_nMaxSamples
        /\ IsStatisticsOf(AccessorResults, RecentSamples)

\* One sample more than the capacity has been stored, the first of them
\* larger in every quantity than all that followed: it is not the maximum
\* any more.
C21_Witness ==
    /\ Len(perfSamples) = m_nMaxSamples + 1
    /\ \A i \in 2 .. Len(perfSamples) :
          /\ U32Less(perfSamples[i].sample.clockCycles,
                     perfSamples[1].sample.clockCycles)
          /\ F32Less(perfSamples[i].sample.cpuUsagePercent,
                     perfSamples[1].sample.cpuUsagePercent)
    /\ U32Less(AccessorResults.maxCycles, perfSamples[1].sample.clockCycles)
    /\ F32Less(AccessorResults.maxCPU, perfSamples[1].sample.cpuUsagePercent)

ZeroSample ==
    [ clockCycles |-> ZeroWord, processingTimeUs |-> F32Zero(0),
      cpuUsagePercent |-> F32Zero(0) ]

\* C22: ResetStatistics leaves the count of valid samples and the running
\* index 0, every slot of the three arrays and the last result zero; from
\* then until an EndTiming stores a sample every accessor returns 0; and
\* after a ResetStatistics the accessors return the statistics of the samples
\* stored since, the earlier ones having no part in them.
C22_Reset ==
    /\ [][ perfLog' = Append(perfLog, "reset") =>
              /\ m_nValidSamples' = 0
              /\ m_nCurrentIndex' = 0
              /\ \A i \in 0 .. m_nMaxSamples - 1 :
                    /\ m_pClockCycles'[i] = ZeroWord
                    /\ m_pProcessingTimes'[i] = F32Zero(0)
                    /\ m_pCPUUsages'[i] = F32Zero(0)
              /\ m_LastResult' = ZeroSample ]_vars
    /\ [](perfSamples = << >> => AccessorResults = NoStatistics)
    /\ [](perfAppended > Len(perfSamples) =>
              IsStatisticsOf(AccessorResults, RecentSamples))

\* A sample was stored, the statistics were reset and one more sample was
\* stored: it is the only one the accessors see.
C22_Witness ==
    /\ perfLog = << "start", "end", "reset", "start", "end" >>
    /\ perfAppended = 2
    /\ Len(perfSamples) = 1
    /\ m_nValidSamples = 1
    /\ AccessorResults.maxCycles = perfSamples[1].sample.clockCycles
    /\ AccessorResults.maxCycles # ZeroWord

\* C28: the running index is below the capacity and the count of valid
\* samples at most the capacity; while the count is below the capacity the
\* index equals it; and the index is the number of samples stored since
\* construction or the last ResetStatistics, modulo the capacity.
C28_IndexInvariant ==
    /\ m_nMaxSamples >= 1
    /\ m_nCurrentIndex \in 0 .. m_nMaxSamples - 1
    /\ m_nValidSamples \in 0 .. m_nMaxSamples
    /\ (m_nValidSamples < m_nMaxSamples => m_nCurrentIndex = m_nValidSamples)
    /\ m_nCurrentIndex = Len(perfSamples) % m_nMaxSamples

\* One sample more than the capacity has been stored: the index has wrapped
\* round to 1 while the count stays at the capacity.
C28_Witness ==
    /\ Len(perfSamples) = m_nMaxSamples + 1
    /\ m_nCurrentIndex = 1
    /\ m_nValidSamples = m_nMaxSamples

StartStep == perfLog' = Append(perfLog, "start")
EndStep == perfLog' = Append(perfLog, "end")

BigTimes(a, c) == BigTrim(BigTimesFrom(a, c, 1, 0))

\* d is the number of ticks the 32-bit counter took from reading s to
\* reading e: the one d below 2^32 with (s + d) mod 2^32 = e.
IsElapsed(d, s, e) ==
    LET sum == BigAdd(BigOfWord(s), BigOfWord(d))
    IN  sum = BigOfWord(e) \/ sum = BigAdd(BigOfWord(e), BigShl(<< 1 >>, 32))

\* The float x is d * rate * 100 / (n * 10^6) to a relative 2^-20:
\* |x * n * 10^6 - d * rate * 100| * 2^20 <= d * rate * 100.
NearPercentage(x, d, n, rate) ==
    LET A0 == BigTimes(BigTimes(BigTimes(BigOf(x.man), n), 1000), 1000)
        B0 == BigTimes(BigTimes(BigOfWord(d), rate), 100)
        A  == IF x.exp >= 0 THEN BigShl(A0, x.exp) ELSE A0
        B  == IF x.exp >= 0 THEN B0 ELSE BigShl(B0, -x.exp)
        D  == IF BigLess(A, B) THEN BigSub(B, A) ELSE BigSub(A, B)
    IN  x.cls = "fin" /\ x.sign = 0 /\ ~BigLess(B, BigShl(D, 20))

\* duration / (n * 1000000 / sampleRate) * 100 in binary32, 0 when n = 0 or
\* sampleRate = 0.
Percentage(duration, n, sampleRate) ==
    IF n = 0 \/ sampleRate = 0 THEN F32Zero(0)
    ELSE F32Mul(F32Div(duration,
                       F32Div(F32Mul(F32FromInt(n), F32FromInt(1000000)),
                              F32FromInt(sampleRate))),
                F32FromInt(100))

\* C26: an EndTiming(n) that closes an open timing stores exactly one sample,
\* at the running index: its duration is the timer's reading at the call less
\* the reading at the most recent StartTiming, its CPU usage is
\* duration / (n * 1000000 / sampleRate) * 100, which is d * rate / (n * 10^4)
\* to a relative 2^-20, and 0 when n = 0 or sampleRate = 0; no other slot
\* changes and the running index advances by one modulo the capacity.
C26_SampleAppended ==
    [][ (EndStep /\ m_bTimingActive) =>
          /\ Len(perfSamples') = Len(perfSamples) + 1
          /\ LET n   == perfSamples'[Len(perfSamples')].n
                 d   == m_pClockCycles'[m_nCurrentIndex]
                 cpu == m_pCPUUsages'[m_nCurrentIndex]
             IN  /\ IsElapsed(d, clockTicks, clockTicks')
                 /\ m_pProcessingTimes'[m_nCurrentIndex] = F32FromU32(d)
                 /\ cpu = Percentage(F32FromU32(d), n, m_nSampleRate)
                 /\ (n # 0 /\ m_nSampleRate # 0 =>
                         NearPercentage(cpu, d, n, m_nSampleRate))
          /\ \A i \in 0 .. m_nMaxSamples - 1 :
                i # m_nCurrentIndex =>
                    /\ m_pClockCycles'[i] = m_pClockCycles[i]
                    /\ m_pProcessingTimes'[i] = m_pProcessingTimes[i]
                    /\ m_pCPUUsages'[i] = m_pCPUUsages[i]
          /\ m_nCurrentIndex' = (m_nCurrentIndex + 1) % m_nMaxSamples ]_vars

\* The rate was set to 44100, a period of 2667 ticks over 128 samples was
\* closed: about 91.9 percent.
C26_Witness ==
    /\ perfLog = << "rate", "start", "end" >>
    /\ m_nSampleRate = 44100
    /\ Len(perfSamples) = 1
    /\ perfSamples[1].n = 128
    /\ m_pClockCycles[0] = Word(0, 2667)
    /\ F32Less(F32FromInt(91), m_pCPUUsages[0])
    /\ F32Less(m_pCPUUsages[0], F32FromInt(92))
    /\ m_nCurrentIndex = 1

\* A StartTiming with no EndTiming after it is among the calls.
TimingOpen(log) ==
    \E j \in 1 .. Len(log) :
        log[j] = "start" /\ \A k \in j + 1 .. Len(log) : log[k] # "end"

\* The EndTiming calls that close a timing.
Completed(log) ==
    { i \in 1 .. Len(log) : log[i] = "end" /\ TimingOpen(SubSeq(log, 1, i - 1)) }

\* C27: the number of samples stored is the number of EndTiming calls that
\* follow a StartTiming with no other EndTiming in between; an EndTiming that
\* does not, stores nothing; a StartTiming stores nothing either and takes
\* the timer's reading as the new start.
C27_OnePerPeriod ==
    /\ [](perfAppended = Cardinality(Completed(perfLog)))
    /\ [][ (EndStep /\ ~TimingOpen(perfLog)) =>
              UNCHANGED << StatisticsState, perfAppended >> ]_vars
    /\ [][ StartStep =>
              /\ UNCHANGED << StatisticsState, perfAppended >>
              /\ m_nStartTicks' = clockTicks' ]_vars

\* Two StartTiming calls, then two EndTiming calls: one sample, measured from
\* the second start.
C27_Witness ==
    /\ perfLog = << "start", "start", "end", "end" >>
    /\ perfAppended = 1
    /\ m_nValidSamples = 1
    /\ m_nStartTicks = Word(0, 1000)
    /\ m_LastResult.clockCycles = Word(0, 2667)

\* C29: the duration an EndTiming stores is the number of ticks elapsed since
\* the StartTiming, also when the 32-bit counter has wrapped round in between
\* and the reading at the end is the smaller one: it is then
\* end + 2^32 - start.
C29_Wraparound ==
    [][ (EndStep /\ m_bTimingActive) =>
          LET d == m_LastResult'.clockCycles
          IN  /\ m_pClockCycles'[m_nCurrentIndex] = d
              /\ IsElapsed(d, clockTicks, clockTicks')
              /\ (U32Less(clockTicks', clockTicks) =>
                      BigAdd(BigOfWord(clockTicks), BigOfWord(d)) =
                          BigAdd(BigOfWord(clockTicks'), BigShl(<< 1 >>, 32))) ]_vars

\* Started 100 ticks before the counter wraps, ended at 1000: 1100 ticks.
C29_Witness ==
    /\ perfLog # << >> /\ perfLog[Len(perfLog)] = "end"
    /\ m_nStartTicks = Word(255, TwoTo24 - 100)
    /\ m_nEndTicks = Word(0, 1000)
    /\ clockTicks = m_nEndTicks
    /\ m_LastResult.clockCycles = Word(0, 1100)
    /\ m_nValidSamples >= 1

\* C30: between calls, after any sequence of PutChunk and GetChunk calls of
\* any lengths, currentInputBuffer is inputBuffer_A and currentOutputBuffer is
\* outputBuffer_A exactly when useBufferA is true, and they are inputBuffer_B
\* and outputBuffer_B exactly when it is false: input and output are on the
\* same side, the one the selector names.
C30_PointersFollowSelector ==
    /\ currentInputBuffer \in {"A", "B"}
    /\ currentOutputBuffer \in {"A", "B"}
    /\ useBufferA <=> (currentInputBuffer = "A" /\ currentOutputBuffer = "A")
    /\ ~useBufferA <=> (currentInputBuffer = "B" /\ currentOutputBuffer = "B")
    /\ currentInputBuffer = currentOutputBuffer

\* A block got, a block put on side B, a put of a wrong length: side B still.
C30_Witness ==
    /\ calls = << "get", "put", "badput" >>
    /\ ~useBufferA
    /\ currentInputBuffer = "B"
    /\ currentOutputBuffer = "B"
    /\ inputBuffer_B = lastPut
    /\ lastPut # ZeroBlock

\* The register a transfer addresses: the upper seven bits of its first byte.
RegisterOf(transfer) == transfer.Cmd[1] \div 2
AllTransfersComplete == \A k \in DOMAIN i2cWrites : i2cWrites[k].ok

\* C24: a SetControl for ControlVolume or ControlMute whose value lies outside
\* the range GetControlInfo reports for the control and the jack (input
\* volume -17..30, output volume -73..6, mute 0..1) returns FALSE, writes no
\* register and leaves the cached input volume and mute bytes as they were.
C24_OutOfRangeRejected ==
    LET info == GetControlInfo(codecCall.Control, codecCall.Jack, codecCall.Channel)
    IN  (/\ codecCall.op = "SetControl"
         /\ codecCall.Control \in { "ControlVolume", "ControlMute" }
         /\ info.Supported
         /\ (codecCall.nValue < info.RangeMin \/ codecCall.nValue > info.RangeMax))
        => /\ ~codecCall.ret
           /\ i2cWrites = << >>
           /\ wm8960.m_uchInVolume = codecCall.m_uchInVolume

\* C25: when the bus completes every transfer, Probe returns TRUE exactly
\* when the sample rate the controller was constructed with is 44100 or
\* 48000; for any other rate it returns FALSE having written the reset and
\* the three power management registers only: none of the clocking and PLL
\* registers and none of the registers configured after them.
C25_ProbeRate ==
    (codecCall.op = "Probe" /\ AllTransfersComplete) =>
        /\ codecCall.ret <=> wm8960.m_nSampleRate \in { 44100, 48000 }
        /\ wm8960.m_nSampleRate \notin { 44100, 48000 } =>
              /\ ~codecCall.ret
              /\ \A k \in DOMAIN i2cWrites :
                    RegisterOf(i2cWrites[k]) \in { 15, 25, 26, 47 }
              /\ \A k \in DOMAIN i2cWrites :
                    RegisterOf(i2cWrites[k]) \notin { 4, 52, 53, 54, 55 }

\* Probe at 96000 Hz after a call that changed the cache: the four writes
\* before the rate is looked at, all complete, and FALSE.
C25_Witness ==
    /\ codecCall.op = "Probe"
    /\ codecCalls = 2
    /\ wm8960.m_nSampleRate = 96000
    /\ AllTransfersComplete
    /\ Len(i2cWrites) = 4
    /\ ~codecCall.ret
    /\ wm8960.m_uchInVolume[0] # \h17

\* What an accessor returns, taken from the six results.
ResultOf(results, accessor) ==
    CASE accessor = "GetAverageCPUUsagePercent"  -> results.avgCPU
      [] accessor = "GetMaxCPUUsagePercent"      -> results.maxCPU
      [] accessor = "GetAverageClockCycles"      -> results.avgCycles
      [] accessor = "GetMaxClockCycles"          -> results.maxCycles
      [] accessor = "GetAverageProcessingTimeUs" -> results.avgTime
      [] accessor = "GetMaxProcessingTimeUs"     -> results.maxTime

\* C23: an accessor (an average or a maximum) running while one EndTiming
\* runs, their memory reads and writes interleaved in any way and no lock
\* taken, never reads a slot outside the buffer, never divides by a zero
\* count, and returns what it would have returned just before that EndTiming
\* or just after it.
C23_StaleButConsistent ==
    /\ reader.fault = "none"
    /\ (reader.pc = "done" /\ writer.pc = "done") =>
          \/ reader.result = ResultOf(writer.before, reader.accessor)
          \/ reader.result = ResultOf(AccessorResults, reader.accessor)

\* The fields of a cached input byte: bit 7, bit 6, bits 5..0.
MuteBit(byte) == (byte \div 128) % 2
SpareBit(byte) == (byte \div 64) % 2
VolumeCode(byte) == byte % 64
InputJacks == { j \in Jacks : GetControlInfo("ControlMute", j, "ChannelAll").Supported }

\* C31: the input mute and the input volume are separate fields of the cached
\* byte of a channel. A SetControl (ControlVolume) on an input jack leaves the
\* mute bit (bit 7) of both bytes as it was, a SetControl (ControlMute) leaves
\* the volume code (bits 5..0) of both bytes as it was, and after any
\* sequence of calls each byte is a byte with bit 6 clear; the code computed
\* for an accepted volume fits into bits 5..0.
C31_MuteAndVolumeApart ==
    /\ \A ch \in 0 .. 1 :
          /\ wm8960.m_uchInVolume[ch] \in 0 .. 255
          /\ SpareBit(wm8960.m_uchInVolume[ch]) = 0
    /\ \A v \in -17 .. 30 : InputVolumeCode(v) \in 0 .. 63
    /\ (/\ codecCall.op = "SetControl"
         /\ codecCall.Control = "ControlVolume"
         /\ codecCall.Jack \in InputJacks)
        => \A ch \in 0 .. 1 :
              MuteBit(wm8960.m_uchInVolume[ch]) = MuteBit(codecCall.m_uchInVolume[ch])
    /\ (codecCall.op = "SetControl" /\ codecCall.Control = "ControlMute")
        => \A ch \in 0 .. 1 :
              VolumeCode(wm8960.m_uchInVolume[ch]) =
                  VolumeCode(codecCall.m_uchInVolume[ch])

\* Both channels muted, then the left volume set to 30 dB: the left byte is
\* 0x80 | 62, the right one 0x80 | 0x17.
C31_Witness ==
    /\ codecCalls = 2
    /\ codecCall.op = "SetControl"
    /\ codecCall.Control = "ControlVolume"
    /\ codecCall.Jack = "JackMicrophone"
    /\ codecCall.Channel = "ChannelLeft"
    /\ codecCall.nValue = 30
    /\ codecCall.ret
    /\ codecCall.m_uchInVolume = [ch \in 0 .. 1 |-> \h97]
    /\ wm8960.m_uchInVolume[0] = \hBE
    /\ wm8960.m_uchInVolume[1] = \h97

\* The controls and the values a caller can pass, those no GetControlInfo
\* range admits among them.
Controls == { "ControlMute", "ControlVolume", "ControlALC", "ControlUnknown" }
AnyValues ==
    { -1000, -256, -129, -128, -75, -74, -73, -72, -19, -18, -17, -16, -1, 0,
      1, 2, 3, 4, 5, 6, 7, 29, 30, 31, 32, 127, 128, 255, 256, 1000 }

\* What WriteReg asserts of a transfer: nReg <= 0x7F and nValue <= 0x1FF.
Asserted(transfer) ==
    /\ transfer.nReg \in 0 .. \h7F
    /\ transfer.nValue \in 0 .. \h1FF

\* C32: every transfer a Probe, EnableJack, DisableJack or SetControl call
\* makes, whatever its arguments and whichever transfer fails, has a register
\* address of at most 0x7F and a value of at most 0x1FF; so does every
\* transfer SetControl makes on the constructed object with any control,
\* jack, channel and value.
C32_AssertionsHold ==
    /\ \A k \in DOMAIN i2cWrites : Asserted(i2cWrites[k])
    /\ codecCalls = 0 =>
          \A Control \in Controls, Jack \in Jacks, Channel \in Channels,
             nValue \in AnyValues :
              LET w == SetControl(wm8960, Control, Jack, Channel, nValue, 0).writes
              IN  \A k \in DOMAIN w : Asserted(w[k])

\* The mute control has been set to 2 on both channels of the muted
\* microphone and 0x197 went to R0 and to R1.
C32_Witness ==
    /\ codecCalls = 2
    /\ codecCall.op = "SetControl" /\ codecCall.Control = "ControlMute"
    /\ codecCall.Jack = "JackMicrophone" /\ codecCall.Channel = "ChannelAll"
    /\ codecCall.nValue = 2
    /\ codecCall.m_uchInVolume[0] = \h97
    /\ Len(i2cWrites) = 2
    /\ i2cWrites[1].nReg = 0 /\ i2cWrites[1].nValue = \h197
    /\ i2cWrites[2].nReg = 1 /\ i2cWrites[2].nValue = \h197
    /\ AllTransfersComplete

\* The registers of Probe's sequence in the order of the claim: the reset,
\* the power management, the clocking and the PLL, the interface, the
\* volumes, the signal paths.
ProbeOrder ==
    << 15, 25, 26, 47, 4, 52, 53, 54, 55, 5, 7, 20, 2, 3, 40, 41, 51, 0, 1,
       32, 33, 43, 44, 49, 34, 37 >>

\* C34: the registers a Probe call has addressed on the bus are the first
\* ones of one fixed sequence that begins with R15, in its order; no
\* transfer but the last one made has failed; Probe has returned FALSE if
\* the last one failed, and TRUE only if it made the whole sequence and
\* every transfer completed.
C34_ProbeOrder ==
    codecCall.op = "Probe" =>
        /\ Len(i2cWrites) \in 1 .. Len(ProbeOrder)
        /\ \A k \in DOMAIN i2cWrites :
              /\ RegisterOf(i2cWrites[k]) = ProbeOrder[k]
              /\ i2cWrites[k].nReg = ProbeOrder[k]
              /\ k < Len(i2cWrites) => i2cWrites[k].ok
        /\ Failed(i2cWrites) => ~codecCall.ret
        /\ codecCall.ret =>
              Len(i2cWrites) = Len(ProbeOrder) /\ AllTransfersComplete

\* A Probe at 44100 Hz whose seventh transfer, to R53, failed: it made
\* seven transfers and returned FALSE.
C34_Witness ==
    /\ codecCall.op = "Probe"
    /\ wm8960.m_nSampleRate = 44100
    /\ Len(i2cWrites) = 7
    /\ RegisterOf(i2cWrites[7]) = 53
    /\ ~i2cWrites[7].ok
    /\ ~codecCall.ret

OutputJacks == { j \in Jacks : ~IsInputJack(j) }

\* The registers and the values the claim gives for an output volume v: the
\* left register, the right register, or the left and then the right, each
\* with 0x100 + (v + 73 + 0x30).
ClaimedOutputWrites(Jack, Channel, v) ==
    LET nRegL == IF Jack = "JackSpeaker" THEN 40 ELSE 2
        value == \h100 + (v + 73 + \h30)
    IN  CASE Channel = "ChannelLeft" -> << << nRegL, value >> >>
          [] Channel = "ChannelRight" -> << << nRegL + 1, value >> >>
          [] Channel = "ChannelAll" ->
                << << nRegL, value >>, << nRegL + 1, value >> >>

\* The register and the value of each transfer, and what went on the bus for
\* a register and a 9 bit value.
RegistersAndValues(writes) ==
    [ k \in DOMAIN writes |-> << writes[k].nReg, writes[k].nValue >> ]
OnTheBus(writes) ==
    \A k \in DOMAIN writes :
        writes[k].Cmd = << writes[k].nReg * 2 + writes[k].nValue \div 256,
                           writes[k].nValue % 256 >>

\* C36: for every v in -73..6, every output jack and every channel,
\* SetControl(ControlVolume) returns TRUE having written
\* 0x100 + (v + 73 + 0x30), a value in 0x130..0x17F, to R40/R41 for the
\* speaker and to R2/R3 for any other output jack: the left register for
\* ChannelLeft, the right one for ChannelRight, the left and then the right
\* for ChannelAll; -73 dB gives 0x130, +6 dB 0x17F and 0 dB 0x179, the value
\* Probe writes to R2, R3, R40 and R41. A call made with a transfer failing
\* has made the first of these transfers only.
C36_OutputVolume ==
    /\ codecCalls = 0 =>
          /\ \A v \in -73 .. 6, Jack \in OutputJacks, Channel \in Channels :
                LET r == SetControl(wm8960, "ControlVolume", Jack, Channel, v, 0)
                IN  /\ r.ret
                    /\ RegistersAndValues(r.writes) =
                           ClaimedOutputWrites(Jack, Channel, v)
                    /\ \A k \in DOMAIN r.writes :
                           r.writes[k].nValue \in \h130 .. \h17F
                    /\ OnTheBus(r.writes)
          /\ LET valueFor(v) ==
                     SetControl(wm8960, "ControlVolume", "JackHeadphone",
                                "ChannelLeft", v, 0).writes[1].nValue
                 probe == Probe(wm8960, 0).writes
             IN  /\ valueFor(-73) = \h130
                 /\ valueFor(6) = \h17F
                 /\ valueFor(0) = \h179
                 /\ \A k \in DOMAIN probe :
                        probe[k].nReg \in { 2, 3, 40, 41 } =>
                            probe[k].nValue = valueFor(0)
    /\ ( /\ codecCall.op = "SetControl"
         /\ codecCall.Control = "ControlVolume"
         /\ codecCall.Jack \in OutputJacks
         /\ codecCall.nValue \in -73 .. 6 ) =>
          LET claimed == ClaimedOutputWrites(codecCall.Jack, codecCall.Channel,
                                             codecCall.nValue)
          IN  /\ Len(i2cWrites) \in 1 .. Len(claimed)
              /\ RegistersAndValues(i2cWrites) =
                     SubSeq(claimed, 1, Len(i2cWrites))
              /\ OnTheBus(i2cWrites)
              /\ codecCall.ret = AllTransfersComplete
              /\ codecCall.ret => Len(i2cWrites) = Len(claimed)
              /\ \A k \in 1 .. Len(i2cWrites) - 1 : i2cWrites[k].ok

\* +6 dB has been set on both channels of the speaker: 0x17F went to R40 and
\* then to R41.
C36_Witness ==
    /\ codecCall.op = "SetControl" /\ codecCall.Control = "ControlVolume"
    /\ codecCall.Jack = "JackSpeaker" /\ codecCall.Channel = "ChannelAll"
    /\ codecCall.nValue = 6
    /\ codecCall.ret
    /\ RegistersAndValues(i2cWrites) = << << 40, \h17F >>, << 41, \h17F >> >>

\* The channels a call for Channel acts on: 0 is the left one, 1 the right.
ChannelsOf(Channel) ==
    CASE Channel = "ChannelLeft" -> { 0 }
      [] Channel = "ChannelRight" -> { 1 }
      [] Channel = "ChannelAll" -> { 0, 1 }
      [] OTHER -> { }

\* The cache as the constructor leaves it and R0, R1 as a Probe of that
\* object leaves them.
DefaultVolume == [ch \in 0 .. 1 |-> \h17]
DefaultWritten == [ch \in 0 .. 1 |-> \h117]

\* C33: after a Probe that returned TRUE and any SetControl calls since, in
\* which single transfers may have failed, the cached byte of each channel is
\* the low 8 bits of the value of the last completed transfer to the
\* channel's register (R0 left, R1 right), and a SetControl call that
\* returned FALSE has left the cached bytes as they were before it.
C33_CacheAgrees ==
    probed =>
        /\ \A ch \in 0 .. 1 : wm8960.m_uchInVolume[ch] = written[ch] % 256
        /\ (codecCall.op = "SetControl" /\ ~codecCall.ret) =>
               wm8960.m_uchInVolume = codecCall.m_uchInVolume

\* C35: a SetControl(ControlVolume, input jack, channel, 0) that returns TRUE
\* has stored the volume code 0x17 in the cached byte of each channel it acts
\* on and written that code to the channel's register; made when the cache
\* and R0, R1 are as a Probe of the constructed object leaves them, it leaves
\* R0 and R1 with the values they had.
C35_ZeroDbIsDefault ==
    ( /\ codecCall.op = "SetControl"
      /\ codecCall.Control = "ControlVolume"
      /\ IsInputJack(codecCall.Jack)
      /\ codecCall.nValue = 0
      /\ codecCall.ret ) =>
        /\ \A ch \in ChannelsOf(codecCall.Channel) :
              VolumeCode(wm8960.m_uchInVolume[ch]) = \h17
        /\ \A k \in DOMAIN i2cWrites :
              VolumeCode(i2cWrites[k].Cmd[2]) = \h17
        /\ ( /\ probed
             /\ codecCall.m_uchInVolume = DefaultVolume
             /\ codecCall.written = DefaultWritten ) =>
               written = codecCall.written

====
